---- MODULE Spec2Model ----
(***************************************************************************)
(* Retirement planner backend (server.js): the /api/generate-excel        *)
(* handler, its year-state simulator runProjection, the closed-form RRSP   *)
(* withdrawal solver and the two searches (max years, max expense).        *)
(*                                                                         *)
(* Numbers.  The program computes with JavaScript Numbers (binary64).      *)
(* The model holds a number as n / (d * 2^e) in lowest terms with d odd, a *)
(* numerator of 2^30 or more being kept as a sequence of limbs, and rounds *)
(* the result of every +, -, *, / and Math.pow to the nearest double, ties *)
(* to even, so that every value of a state is a dyadic number of at most 53*)
(* digits, as in the program.  Overflow, underflow and subnormal numbers   *)
(* are out of reach of the inputs enumerated here.  Comparisons against EPS*)
(* are made with the decimal 1e-9 on the rounded difference of the two     *)
(* sides.                                                                  *)
(***************************************************************************)
EXTENDS Integers, Sequences, FiniteSets, TLC

----------------------------------------------------------------------------
(* Arithmetic *)

RECURSIVE Pow2(_)
Pow2(k) == IF k <= 0 THEN 1 ELSE 2 * Pow2(k - 1)

AbsInt(a) == IF a < 0 THEN -a ELSE a

RECURSIVE Gcd(_, _)
Gcd(a, b) == IF b = 0 THEN a ELSE Gcd(b, a % b)

\* Magnitudes too wide for one machine integer: limbs of 15 bits, lowest first,
\* the highest limb not 0.
Base == 2^15
Wide == 2^30

RECURSIVE MagOfInt(_)
MagOfInt(k) == IF k = 0 THEN <<>> ELSE <<k % Base>> \o MagOfInt(k \div Base)

IntOfMag(a) ==
    IF Len(a) = 0 THEN 0 ELSE IF Len(a) = 1 THEN a[1] ELSE a[1] + Base * a[2]

RECURSIVE Trim(_)
Trim(a) == IF Len(a) > 0 /\ a[Len(a)] = 0 THEN Trim(SubSeq(a, 1, Len(a) - 1)) ELSE a

Limb(a, i) == IF i <= Len(a) THEN a[i] ELSE 0

\* compare from limb i downwards: -1, 0, 1
RECURSIVE MagCmpFrom(_, _, _)
MagCmpFrom(a, b, i) ==
    IF i = 0 THEN 0
    ELSE IF a[i] < b[i] THEN -1
    ELSE IF a[i] > b[i] THEN 1
    ELSE MagCmpFrom(a, b, i - 1)

MagCmp(a, b) ==
    IF Len(a) < Len(b) THEN -1
    ELSE IF Len(a) > Len(b) THEN 1
    ELSE MagCmpFrom(a, b, Len(a))

RECURSIVE MagAddFrom(_, _, _, _)
MagAddFrom(a, b, i, carry) ==
    IF i > Len(a) /\ i > Len(b)
    THEN (IF carry = 0 THEN <<>> ELSE <<carry>>)
    ELSE <<(Limb(a, i) + Limb(b, i) + carry) % Base>>
         \o MagAddFrom(a, b, i + 1, (Limb(a, i) + Limb(b, i) + carry) \div Base)

MagAdd(a, b) == MagAddFrom(a, b, 1, 0)

\* a - b for a >= b
RECURSIVE MagSubFrom(_, _, _, _)
MagSubFrom(a, b, i, borrow) ==
    IF i > Len(a) THEN <<>>
    ELSE <<(a[i] - Limb(b, i) - borrow + Base) % Base>>
         \o MagSubFrom(a, b, i + 1, IF a[i] - Limb(b, i) - borrow < 0 THEN 1 ELSE 0)

MagSub(a, b) == Trim(MagSubFrom(a, b, 1, 0))

\* a * k for 0 <= k < Base
RECURSIVE MagMulSmallFrom(_, _, _, _)
MagMulSmallFrom(a, k, i, carry) ==
    IF i > Len(a)
    THEN (IF carry = 0 THEN <<>> ELSE <<carry>>)
    ELSE <<(a[i] * k + carry) % Base>>
         \o MagMulSmallFrom(a, k, i + 1, (a[i] * k + carry) \div Base)

MagMulSmall(a, k) == IF k = 0 THEN <<>> ELSE MagMulSmallFrom(a, k, 1, 0)

\* a * b, one limb of b at a time from the top limb: acc * Base + a * b[j]
RECURSIVE MagMulFrom(_, _, _, _)
MagMulFrom(a, b, j, acc) ==
    IF j = 0 THEN acc
    ELSE IF Len(acc) = 0 THEN MagMulFrom(a, b, j - 1, MagMulSmall(a, b[j]))
    ELSE MagMulFrom(a, b, j - 1, MagAdd(MagMulSmall(a, b[j]), <<0>> \o acc))

MagMul(a, b) ==
    IF Len(a) = 0 \/ Len(b) = 0 THEN <<>>
    ELSE IF Len(a) < Len(b) THEN MagMulFrom(b, a, Len(a), <<>>)
    ELSE MagMulFrom(a, b, Len(b), <<>>)

\* a * k for any k >= 0
MagMulInt(a, k) == IF k = 1 THEN a ELSE IF k < Base THEN MagMulSmall(a, k) ELSE MagMul(a, MagOfInt(k))

\* quotient (limbs 1..i) and remainder of a by k, 0 < k < Base, from the top limb
RECURSIVE MagDivSmallFrom(_, _, _, _)
MagDivSmallFrom(a, k, i, rem) ==
    IF i = 0 \/ rem < 0 THEN [q |-> <<>>, r |-> rem]
    ELSE LET low == MagDivSmallFrom(a, k, i - 1, (rem * Base + a[i]) % k)
         IN  [q |-> Append(low.q, (rem * Base + a[i]) \div k), r |-> low.r]

MagDivSmall(a, k) == Trim(MagDivSmallFrom(a, k, Len(a), 0).q)

\* a mod k: the remainder carried from the top limb down
RECURSIVE MagModFrom(_, _, _, _)
MagModFrom(a, k, i, rem) ==
    IF i = 0 \/ rem < 0 THEN rem ELSE MagModFrom(a, k, i - 1, (rem * Base + a[i]) % k)

\* one limb v of a division by k >= Base, bit by bit from the top bit: the
\* quotient limb and the remainder
RECURSIVE LimbDiv(_, _, _, _, _)
LimbDiv(rem, v, k, bit, q) ==
    IF bit = 0 \/ rem < 0 THEN [q |-> q, r |-> rem]
    ELSE LET cur == 2 * rem + ((v \div bit) % 2)
         IN  IF cur >= k THEN LimbDiv(cur - k, v, k, bit \div 2, q + bit)
                         ELSE LimbDiv(cur, v, k, bit \div 2, q)

RECURSIVE MagDivWideFrom(_, _, _, _)
MagDivWideFrom(a, k, i, rem) ==
    IF i = 0 \/ rem < 0 THEN [q |-> <<>>, r |-> rem]
    ELSE LET here == LimbDiv(rem, a[i], k, 16384, 0)
             low == MagDivWideFrom(a, k, i - 1, here.r)
         IN  [q |-> Append(low.q, here.q), r |-> low.r]

\* a mod k and a / k for any k > 0 below Wide
MagMod(a, k) ==
    IF k = 1 THEN 0
    ELSE IF k < Base THEN MagModFrom(a, k, Len(a), 0) ELSE MagDivWideFrom(a, k, Len(a), 0).r

MagDivInt(a, k) ==
    IF k = 1 THEN a
    ELSE IF k < Base THEN MagDivSmall(a, k)
    ELSE Trim(MagDivWideFrom(a, k, Len(a), 0).q)

\* a * 2^k
RECURSIVE ZeroLimbs(_)
ZeroLimbs(j) == IF j <= 0 THEN <<>> ELSE <<0>> \o ZeroLimbs(j - 1)

MagShl(a, k) ==
    IF Len(a) = 0 THEN <<>> ELSE ZeroLimbs(k \div 15) \o MagMulSmall(a, Pow2(k % 15))

\* floor(a / 2^k)
MagShr(a, k) ==
    IF k \div 15 >= Len(a) THEN <<>>
    ELSE MagDivSmall(SubSeq(a, k \div 15 + 1, Len(a)), Pow2(k % 15))

\* the number of factors of two of a # 0, up to cap
RECURSIVE TwosOfInt(_, _)
TwosOfInt(k, cap) == IF cap > 0 /\ k % 2 = 0 THEN 1 + TwosOfInt(k \div 2, cap - 1) ELSE 0

RECURSIVE MagTwos(_, _, _)
MagTwos(a, i, cap) ==
    IF cap <= 0 THEN 0
    ELSE IF a[i] = 0 THEN (IF cap >= 15 THEN 15 + MagTwos(a, i + 1, cap - 15) ELSE cap)
    ELSE TwosOfInt(a[i], cap)

----------------------------------------------------------------------------
(* Numbers: n / (d * 2^e) in lowest terms, d odd and positive.  While the      *)
(* numerator is below Wide, n is the numerator and m is empty; from Wide on, n *)
(* is its sign and m its magnitude.                                            *)

Num(n) == [n |-> n, d |-> 1, e |-> 0, m |-> <<>>]
Zero == Num(0)
One == Num(1)
Two == Num(2)

IsInt(x) == x.d = 1 /\ x.e = 0 /\ x.m = <<>>

Narrow(x) == x.m = <<>>

\* sign and magnitude of the numerator
SignOf(x) == IF x.n > 0 THEN 1 ELSE IF x.n < 0 THEN -1 ELSE 0
MagOf(x) == IF Narrow(x) THEN MagOfInt(AbsInt(x.n)) ELSE x.m

\* the number with sign s, magnitude a, odd denominator d and exponent e
Pack(s, a, d, e) ==
    IF Len(a) <= 2
    THEN [n |-> s * IntOfMag(a), d |-> d, e |-> e, m |-> <<>>]
    ELSE [n |-> s, d |-> d, e |-> e, m |-> a]

\* move factors of two of the denominator into the exponent
RECURSIVE OddDen(_, _, _)
OddDen(n, d, e) == IF d % 2 = 0 THEN OddDen(n, d \div 2, e + 1) ELSE [n |-> n, d |-> d, e |-> e]

\* cancel factors of two of the numerator against the exponent
RECURSIVE OddNum(_, _, _)
OddNum(n, d, e) ==
    IF e > 0 /\ n % 2 = 0 THEN OddNum(n \div 2, d, e - 1)
    ELSE [n |-> n, d |-> d, e |-> e, m |-> <<>>]

\* the canonical form of n / (d * 2^e), d > 0 and e >= 0, for a numerator below Wide
NormOdd(o) == OddNum(o.n, o.d, o.e)
NormGcd(n, d, e, g) == NormOdd(OddDen(n \div g, d \div g, e))

\* the canonical form of s * a / (d * 2^e) for a magnitude a # 0 and an odd d
WideTwos(s, a, d, e, k) == Pack(s, MagShr(a, k), d, e - k)
WideOdd(s, a, d, e) ==
    IF e < 0 THEN Pack(s, MagShl(a, -e), d, 0)
    ELSE IF e = 0 THEN Pack(s, a, d, 0)
    ELSE WideTwos(s, a, d, e, MagTwos(a, 1, e))
WideGcd(s, a, o, g) == WideOdd(s, MagDivInt(a, g), o.d \div g, o.e)
WideDen(s, a, o) ==
    IF o.d = 1 THEN WideOdd(s, a, 1, o.e) ELSE WideGcd(s, a, o, Gcd(MagMod(a, o.d), o.d))
WideNorm(s, a, d, e) == IF Len(a) = 0 THEN Zero ELSE WideDen(s, a, OddDen(0, d, e))

\* the canonical form of n / (d * 2^e), d > 0
Norm(n, d, e) ==
    IF n = 0 THEN Zero
    ELSE IF e < 0 THEN WideNorm(IF n < 0 THEN -1 ELSE 1, MagOfInt(AbsInt(n)), d, e)
    ELSE NormGcd(n, d, e, Gcd(AbsInt(n), d))

\* operands small enough for the products and the sums of machine integers
Below(x, b) == x.n < b /\ x.n > -b
Short(x) == Narrow(x) /\ Below(x, 32768) /\ x.d < 32768
Near(x, y) == x.e - y.e < 9 /\ y.e - x.e < 9
AddFits(x, y) ==
    /\ Narrow(x) /\ Narrow(y)
    /\ IF x.d = y.d
       THEN IF x.e = y.e THEN Below(x, 536870912) /\ Below(y, 536870912)
            ELSE Near(x, y) /\ Below(x, 1048576) /\ Below(y, 1048576)
       ELSE Near(x, y) /\ Below(x, 16384) /\ Below(y, 16384) /\ x.d < 128 /\ y.d < 128
LessFits(x, y) ==
    /\ Narrow(x) /\ Narrow(y)
    /\ Below(x, 1048576) /\ Below(y, 1048576) /\ x.d < 1024 /\ y.d < 1024

\* s1 * a + s2 * b as sign and magnitude
WideSumPack(s, a, d, e) == WideNorm(s, a, d, e)
WideSum(s1, a, s2, b, d, e) ==
    IF s1 = s2 THEN WideSumPack(s1, MagAdd(a, b), d, e)
    ELSE IF MagCmp(a, b) >= 0 THEN WideSumPack(s1, MagSub(a, b), d, e)
    ELSE WideSumPack(s2, MagSub(b, a), d, e)

\* x + y over the common denominator (x.d / g) * y.d * 2^E
WideAddAt(x, y, g, E) ==
    WideSum(SignOf(x), MagMulInt(MagShl(MagOf(x), E - x.e), y.d \div g),
            SignOf(y), MagMulInt(MagShl(MagOf(y), E - y.e), x.d \div g),
            (x.d \div g) * y.d, E)

WideAdd(x, y) == WideAddAt(x, y, Gcd(x.d, y.d), IF x.e > y.e THEN x.e ELSE y.e)

\* the exact sum
Sum(x, y) ==
    IF x.n = 0 THEN y
    ELSE IF y.n = 0 THEN x
    ELSE IF AddFits(x, y)
    THEN (IF IsInt(x) /\ IsInt(y) THEN Num(x.n + y.n)
          ELSE LET E == IF x.e > y.e THEN x.e ELSE y.e
               IN  Norm(IF x.d = y.d
                        THEN x.n * Pow2(E - x.e) + y.n * Pow2(E - y.e)
                        ELSE x.n * Pow2(E - x.e) * y.d + y.n * Pow2(E - y.e) * x.d,
                        IF x.d = y.d THEN x.d ELSE x.d * y.d,
                        E))
    ELSE WideAdd(x, y)

Neg(x) == [n |-> -x.n, d |-> x.d, e |-> x.e, m |-> x.m]

\* x * y with the numerators reduced against the other denominator first
WideMulAt(x, y, g1, g2) ==
    WideOdd(SignOf(x) * SignOf(y),
            MagMul(MagDivInt(MagOf(x), g1), MagDivInt(MagOf(y), g2)),
            (x.d \div g2) * (y.d \div g1), x.e + y.e)

WideMul(x, y) == WideMulAt(x, y, Gcd(MagMod(MagOf(x), y.d), y.d), Gcd(MagMod(MagOf(y), x.d), x.d))

\* the exact product
Product(x, y) ==
    IF x.n = 0 \/ y.n = 0 THEN Zero
    ELSE IF Short(x) /\ Short(y)
    THEN (IF IsInt(x) /\ IsInt(y) THEN Num(x.n * y.n)
          ELSE LET g1 == Gcd(AbsInt(x.n), y.d)
                   g2 == Gcd(AbsInt(y.n), x.d)
               IN  Norm((x.n \div g1) * (y.n \div g2), (x.d \div g2) * (y.d \div g1), x.e + y.e))
    ELSE WideMul(x, y)

\* 1 / y for y # 0 with a numerator below Wide
Recip(y) == Norm((IF y.n < 0 THEN -1 ELSE 1) * y.d, IntOfMag(MagOf(y)), -y.e)

\* the exact quotient x / y for y # 0
Quotient(x, y) ==
    IF Short(x) /\ Short(y)
    THEN LET s == IF y.n < 0 THEN -1 ELSE 1
             g1 == Gcd(AbsInt(x.n), AbsInt(y.n))
             g2 == Gcd(x.d, y.d)
         IN  Norm(s * (x.n \div g1) * (y.d \div g2), (x.d \div g2) * (AbsInt(y.n) \div g1), x.e - y.e)
    ELSE Product(x, Recip(y))

\* the number of binary digits of k > 0 and of a magnitude a # 0
RECURSIVE BitsOfInt(_)
BitsOfInt(k) == IF k = 0 THEN 0 ELSE 1 + BitsOfInt(k \div 2)
BitLen(a) == 15 * (Len(a) - 1) + BitsOfInt(a[Len(a)])

\* binary64 keeps 53 significant digits
Digits == 53

\* floor(a * 2^k / d) for a # 0 with a flag for what the floor dropped
Scaled(a, d, k) ==
    IF k >= 0
    THEN [q |-> MagDivInt(MagShl(a, k), d), sticky |-> d > 1 /\ MagMod(MagShl(a, k), d) # 0]
    ELSE [q |-> MagShr(MagDivInt(a, d), -k),
          sticky |-> (d > 1 /\ MagMod(a, d) # 0) \/ MagTwos(MagDivInt(a, d), 1, -k) < -k]

\* the magnitude q of Digits + r digits cut to Digits digits, to nearest, ties to even
Nearest(q, r, sticky) ==
    LET low == q[1] % Pow2(r)
        half == Pow2(r - 1)
        kept == MagShr(q, r)
    IN  IF low > half \/ (low = half /\ (sticky \/ kept[1] % 2 = 1))
        THEN MagAdd(kept, <<1>>)
        ELSE kept

RoundScaled(x, k, sc) ==
    WideNorm(SignOf(x), Nearest(sc.q, BitLen(sc.q) - Digits, sc.sticky), 1,
             x.e + k - (BitLen(sc.q) - Digits))

\* a value that a double holds as it is: a dyadic number of at most Digits digits
Representable(x) == x.d = 1 /\ (Narrow(x) \/ BitLen(x.m) - MagTwos(x.m, 1, BitLen(x.m)) <= Digits)

\* the double nearest to x (within the normal range of binary64)
RoundDouble(x) ==
    IF Representable(x) THEN x
    ELSE LET k == Digits + 2 - (BitLen(MagOf(x)) - BitsOfInt(x.d))
         IN  RoundScaled(x, k, Scaled(MagOf(x), x.d, k))

\* the arithmetic of the program: every result is rounded to a double
Add(x, y) == RoundDouble(Sum(x, y))
Sub(x, y) == Add(x, Neg(y))
Mul(x, y) == RoundDouble(Product(x, y))
Div(x, y) == RoundDouble(Quotient(x, y))

\* floor(p / 2^k) and ceil(p / 2^k) for k >= 0, without forming 2^k when it is too wide
FloorShift(p, k) == IF k > 30 THEN (IF p >= 0 THEN 0 ELSE -1) ELSE p \div Pow2(k)
CeilShift(p, k) == -FloorShift(-p, k)

\* x < y, by cross-multiplication; the powers of two are compared by shifting
Less(x, y) ==
    IF LessFits(x, y)
    THEN LET P == x.n * y.d
             Q == y.n * x.d
             k == y.e - x.e
         IN  IF k >= 0 THEN P < CeilShift(Q, k) ELSE FloorShift(P, -k) < Q
    ELSE IF x.n <= 0 /\ y.n >= 0 THEN x.n < 0 \/ y.n > 0
    ELSE IF x.n >= 0 /\ y.n <= 0 THEN FALSE
    ELSE Sum(x, Neg(y)).n < 0

Leq(x, y) == ~Less(y, x)

Max(x, y) == IF Less(x, y) THEN y ELSE x
Min(x, y) == IF Less(y, x) THEN y ELSE x

Abs(x) == IF x.n < 0 THEN Neg(x) ELSE x

\* x^t for an integer t >= 0, exactly
RECURSIVE Power(_, _)
Power(x, t) ==
    IF t = 0 THEN One
    ELSE IF t % 2 = 0 THEN LET h == Power(x, t \div 2) IN Product(h, h)
    ELSE Product(x, Power(x, t - 1))

\* Math.pow(x, t) for an integer t >= 0: the double nearest to x^t
Pow(x, t) == RoundDouble(Power(x, t))

\* floor(x); a wide x is an integer exactly when d = 1 and e = 0
WideFloor(h, q) ==
    IF h.n > 0 THEN Pack(1, q, 1, 0)
    ELSE IF h.d = 1 /\ h.e = 0 THEN h
    ELSE Pack(-1, MagAdd(q, <<1>>), 1, 0)

FloorOf(h) ==
    IF Narrow(h) THEN Num(FloorShift(h.n \div h.d, h.e))
    ELSE WideFloor(h, MagShr(MagDivInt(h.m, h.d), h.e))

\* Math.round(x): floor(x + 1/2)
Round(x) == FloorOf(Sum(x, [n |-> 1, d |-> 1, e |-> 1, m |-> <<>>]))

\* const EPS = 1e-9  =  1 / (5^9 * 2^9)
EPS == [n |-> 1, d |-> 1953125, e |-> 9, m |-> <<>>]

\* a positive value whose denominator is below 10^9 is above EPS
Coarse(x) == x.e <= 9 /\ x.d < 1953125

\* quotient and remainder of d * 2^e by 10^9, one doubling at a time
RECURSIVE QuotEps(_, _)
QuotEps(d, e) ==
    IF e = 0 THEN [q |-> d \div 1000000000, r |-> d % 1000000000]
    ELSE LET h == QuotEps(d, e - 1)
         IN  [q |-> 2 * h.q + (2 * h.r) \div 1000000000, r |-> (2 * h.r) % 1000000000]

\* |x| * 10^9 against d * 2^e: -1, 0, 1
WideEps(x) ==
    MagCmp(MagMulSmall(MagMulSmall(MagMulSmall(MagOf(x), 1000), 1000), 1000),
           MagShl(MagOfInt(x.d), x.e))

\* a dyadic |x| of 1 or more, and one below 2^-30
Whole(x) == x.d = 1 /\ BitLen(MagOf(x)) > x.e
Tiny(x) == x.d = 1 /\ BitLen(MagOf(x)) + 30 <= x.e

\* x > EPS:  n * 10^9 > d * 2^e
GtEps(x) ==
    x.n > 0 /\ (Coarse(x) \/ IF Narrow(x) /\ x.e < 40 THEN x.n > QuotEps(x.d, x.e).q
                               ELSE Whole(x) \/ (~Tiny(x) /\ WideEps(x) > 0))

\* x < EPS:  n * 10^9 < d * 2^e
LtEps(x) ==
    x.n <= 0 \/ (~Coarse(x) /\ IF Narrow(x) /\ x.e < 40
                               THEN LET h == QuotEps(x.d, x.e)
                                    IN  IF h.r = 0 THEN x.n < h.q ELSE x.n <= h.q
                               ELSE Tiny(x) \/ (~Whole(x) /\ WideEps(x) < 0))

----------------------------------------------------------------------------
(* The normalizers toNum and toInt (lines 14-26).  A raw field is absent       *)
(* (undefined), null, or a text: a sequence of characters.                      *)

Undefined == [kind |-> "undefined", text |-> <<>>]
JsNull == [kind |-> "null", text |-> <<>>]
Text(s) == [kind |-> "string", text |-> s]

\* String(v)
StringOf(v) ==
    IF v.kind = "undefined" THEN <<"u", "n", "d", "e", "f", "i", "n", "e", "d">>
    ELSE IF v.kind = "null" THEN <<"n", "u", "l", "l">>
    ELSE v.text

\* the result of a conversion that found no number
NaN == [n |-> 0, d |-> 0, e |-> 1, m |-> <<>>]

DigitValue ==
    "0" :> 0 @@ "1" :> 1 @@ "2" :> 2 @@ "3" :> 3 @@ "4" :> 4 @@
    "5" :> 5 @@ "6" :> 6 @@ "7" :> 7 @@ "8" :> 8 @@ "9" :> 9

IsDigit(ch) == ch \in DOMAIN DigitValue
AllDigits(s) == \A k \in 1..Len(s) : IsDigit(s[k])

\* the value of a sequence of decimal digits
RECURSIVE DecimalOf(_)
DecimalOf(s) ==
    IF Len(s) = 0 THEN 0 ELSE 10 * DecimalOf(SubSeq(s, 1, Len(s) - 1)) + DigitValue[s[Len(s)]]

RECURSIVE Pow10(_)
Pow10(k) == IF k <= 0 THEN 1 ELSE 10 * Pow10(k - 1)

\* the longest prefix of s made of digits
RECURSIVE DigitPrefix(_)
DigitPrefix(s) ==
    IF Len(s) > 0 /\ IsDigit(s[1]) THEN <<s[1]>> \o DigitPrefix(Tail(s)) ELSE <<>>

\* String.prototype.trim, and its two halves
RECURSIVE trimStart(_)
trimStart(s) == IF Len(s) > 0 /\ s[1] = " " THEN trimStart(Tail(s)) ELSE s
RECURSIVE trimEnd(_)
trimEnd(s) == IF Len(s) > 0 /\ s[Len(s)] = " " THEN trimEnd(SubSeq(s, 1, Len(s) - 1)) ELSE s
trim(s) == trimEnd(trimStart(s))

\* s.replace(/[^\d.-]/g, "")
Kept(ch) == IsDigit(ch) \/ ch = "." \/ ch = "-"
cleaned(s) == SelectSeq(s, Kept)

\* the position of the first "." of s, 0 when there is none
RECURSIVE PointFrom(_, _)
PointFrom(s, k) == IF k > Len(s) THEN 0 ELSE IF s[k] = "." THEN k ELSE PointFrom(s, k + 1)

\* the unsigned decimal literals: digits, digits "." digits, "." digits
UnsignedAt(s, p) ==
    LET whole == IF p = 0 THEN s ELSE SubSeq(s, 1, p - 1)
        frac == IF p = 0 THEN <<>> ELSE SubSeq(s, p + 1, Len(s))
    IN  IF AllDigits(whole) /\ AllDigits(frac) /\ Len(whole) + Len(frac) > 0
        THEN RoundDouble(Quotient(Num(DecimalOf(whole \o frac)), Num(Pow10(Len(frac)))))
        ELSE NaN

Unsigned(s) == UnsignedAt(s, PointFrom(s, 1))

\* Number(str) for a text of digits, "." and "-", or such a text between spaces: 0
\* for the empty text, the double nearest to a decimal literal, NaN otherwise
Number(str) ==
    IF Len(trim(str)) = 0 THEN Zero
    ELSE IF trim(str)[1] = "-"
    THEN (IF Unsigned(Tail(trim(str))) = NaN THEN NaN ELSE Neg(Unsigned(Tail(trim(str)))))
    ELSE Unsigned(trim(str))

\* parseInt(str, 10): the leading integer of the text, NaN when there is none
parseIntOf(u, neg) ==
    IF Len(DigitPrefix(IF neg THEN Tail(u) ELSE u)) = 0 THEN NaN
    ELSE Num((IF neg THEN -1 ELSE 1) * DecimalOf(DigitPrefix(IF neg THEN Tail(u) ELSE u)))

parseInt(str) == parseIntOf(trimStart(str), Len(trimStart(str)) > 0 /\ trimStart(str)[1] = "-")

\* FiniteOr with the test left out
FiniteOrSame(n, def) == n

\* Number.isFinite(n) ? n : def
FiniteOr(n, def) == IF n = NaN THEN def ELSE n

\* lines 14-21
toNum(v) ==
    IF v.kind = "null" \/ v.kind = "undefined" THEN Zero
    ELSE IF Len(trim(StringOf(v))) = 0 THEN Zero
    ELSE FiniteOr(Number(cleaned(trim(StringOf(v)))), Zero)

\* lines 23-26
toInt(v, def) == FiniteOr(parseInt(StringOf(v)), def)

----------------------------------------------------------------------------
(* solveRRSPWithdrawal *)

\* simulateYear with the withdrawals starting one year late
simulateYearLate(W, yearsToRetire, rrspInitialBalance, rrspContribute, rrspRoi, t, endBalPrev) ==
    LET init == IF t = 0 THEN rrspInitialBalance ELSE Mul(endBalPrev, Add(One, rrspRoi))
        contrib == IF t < yearsToRetire THEN rrspContribute ELSE Zero
        withdraw == IF t > yearsToRetire THEN W ELSE Zero
    IN  Sub(Add(init, contrib), withdraw)

\* one iteration of the loop of simulate: the end balance of year t
simulateYear(W, yearsToRetire, rrspInitialBalance, rrspContribute, rrspRoi, t, endBalPrev) ==
    LET init == IF t = 0 THEN rrspInitialBalance ELSE Mul(endBalPrev, Add(One, rrspRoi))
        contrib == IF t < yearsToRetire THEN rrspContribute ELSE Zero
        withdraw == IF t >= yearsToRetire THEN W ELSE Zero
    IN  Sub(Add(init, contrib), withdraw)

\* the iterations from..to-1 of the loop of simulate, in order (the range is
\* split in halves, and the first half evaluated before the second is entered,
\* only to keep the evaluation shallow)
RECURSIVE simulateYears(_, _, _, _, _, _, _, _)
simulateYears(W, yearsToRetire, rrspInitialBalance, rrspContribute, rrspRoi, from, to, endBalPrev) ==
    IF to <= from THEN endBalPrev
    ELSE IF to = from + 1
    THEN simulateYear(W, yearsToRetire, rrspInitialBalance, rrspContribute, rrspRoi, from, endBalPrev)
    ELSE LET mid == (from + to) \div 2
             m == simulateYears(W, yearsToRetire, rrspInitialBalance, rrspContribute, rrspRoi,
                                from, mid, endBalPrev)
         IN  IF m \in {m}
             THEN simulateYears(W, yearsToRetire, rrspInitialBalance, rrspContribute, rrspRoi,
                                mid, to, m)
             ELSE m

\* const simulate = (W) => { ... return endBalPrev; }
simulate(W, yearsToRetire, yearsToPlan, rrspInitialBalance, rrspContribute, rrspRoi) ==
    simulateYears(W, yearsToRetire, rrspInitialBalance, rrspContribute, rrspRoi, 0, yearsToPlan,
                  rrspInitialBalance)

\* RootOf without the clamp at 0
RootOfUnclamped(a, b) == IF b.n > 0 THEN Div(a, b) ELSE Zero

\* return b > 0 ? Math.max(0, a / b) : 0
RootOf(a, b) == IF b.n > 0 THEN Max(Zero, Div(a, b)) ELSE Zero

\* const b = a - a1
LinearRoot(a, a1) == RootOf(a, Sub(a, a1))

\* final(W) is linear in W, so compute with W=0 and W=1
solveRRSPWithdrawal(yearsToRetire, yearsToPlan, rrspInitialBalance, rrspContribute, rrspRoi) ==
    LinearRoot(simulate(Zero, yearsToRetire, yearsToPlan, rrspInitialBalance, rrspContribute, rrspRoi),
               simulate(One, yearsToRetire, yearsToPlan, rrspInitialBalance, rrspContribute, rrspRoi))

----------------------------------------------------------------------------
(* runProjection *)

\* The two rules below are written as chains of operators, one per intermediate
\* value of the code (need, short, nonrW, ...), each value computed once and handed on.

\* if (short > EPS) depletedEarly = true
PreRetResult(nonrW, tfsaW, short, tfsaTarget) ==
    [nonrC |-> Zero, nonrW |-> nonrW, tfsaC |-> tfsaTarget, tfsaW |-> tfsaW,
     depleted |-> GtEps(Sub(short, tfsaW))]

\* PreRetTfsa with the withdrawal capped by the opening balance alone
PreRetTfsaOpening(nonrW, short, tfsaTarget, tfsaInit) ==
    PreRetResult(nonrW,
                 IF GtEps(short) THEN Min(tfsaInit, short) ELSE Zero,
                 short, tfsaTarget)

\* if (short > EPS) { tfsaW = Math.min(tfsaInit + tfsaC, short); short -= tfsaW; }
PreRetTfsa(nonrW, short, tfsaTarget, tfsaInit) ==
    PreRetResult(nonrW,
                 IF GtEps(short) THEN Min(Add(tfsaInit, tfsaTarget), short) ELSE Zero,
                 short, tfsaTarget)

\* short -= nonrW
PreRetNonr(nonrW, short, tfsaTarget, tfsaInit) ==
    PreRetTfsa(nonrW, Sub(short, nonrW), tfsaTarget, tfsaInit)

\* PreRetNeed with the withdrawal not capped by the balance
PreRetNeedUncapped(income, need, tfsaTarget, tfsaInit, nonrInit) ==
    IF Leq(need, income)
    THEN [nonrC |-> Sub(income, need), nonrW |-> Zero, tfsaC |-> tfsaTarget, tfsaW |-> Zero,
          depleted |-> FALSE]
    ELSE PreRetNonr(Sub(need, income), Sub(need, income), tfsaTarget, tfsaInit)

\* if (income >= need) nonrC = income - need;
\* else { short = need - income; nonrW = Math.min(nonrInit, short); ... }
PreRetNeed(income, need, tfsaTarget, tfsaInit, nonrInit) ==
    IF Leq(need, income)
    THEN [nonrC |-> Sub(income, need), nonrW |-> Zero, tfsaC |-> tfsaTarget, tfsaW |-> Zero,
          depleted |-> FALSE]
    ELSE PreRetNonr(Min(nonrInit, Sub(need, income)), Sub(need, income), tfsaTarget, tfsaInit)

\* PRE-RET rule: nonr balances income vs (expense + rrspC + tfsaC)
PreRetRule(income, expense, rrspC, tfsaTarget, tfsaInit, nonrInit) ==
    PreRetNeed(income, Add(Add(expense, rrspC), tfsaTarget), tfsaTarget, tfsaInit, nonrInit)

\* PostRetResult never setting the flag
PostRetResultQuiet(nonrW, tfsaW, gap) ==
    [nonrC |-> Zero, nonrW |-> nonrW, tfsaC |-> Zero, tfsaW |-> tfsaW, depleted |-> FALSE]

\* const remaining = gap - tfsaW; if (remaining > EPS) depletedEarly = true
PostRetResult(nonrW, tfsaW, gap) ==
    [nonrC |-> Zero, nonrW |-> nonrW, tfsaC |-> Zero, tfsaW |-> tfsaW,
     depleted |-> GtEps(Sub(gap, tfsaW))]

\* PostRetGap with the taxable account left untouched
PostRetGapEarly(gap, tfsaInit, nonrW) == PostRetResult(Zero, Min(tfsaInit, gap), gap)

\* tfsaC = 0; const gap = expense - covered; tfsaW = Math.min(tfsaInit, gap)
PostRetGap(gap, tfsaInit, nonrW) == PostRetResult(nonrW, Min(tfsaInit, gap), gap)

\* PostRetCovered with the tax-free contribution left at its target
PostRetCoveredFullTarget(covered, expense, tfsaTarget, tfsaInit, nonrInit) ==
    IF GtEps(Sub(expense, covered))
    THEN PostRetGap(Sub(expense, covered), tfsaInit, nonrInit)
    ELSE [nonrC |-> Zero, nonrW |-> nonrInit, tfsaC |-> tfsaTarget,
          tfsaW |-> Zero, depleted |-> FALSE]

\* nonr cannot cover: nonrW = nonrInit; tfsaC = what is affordable;
\* if (covered + EPS < expense) the TFSA is withdrawn from instead
PostRetCovered(covered, expense, tfsaTarget, tfsaInit, nonrInit) ==
    IF GtEps(Sub(expense, covered))
    THEN PostRetGap(Sub(expense, covered), tfsaInit, nonrInit)
    ELSE [nonrC |-> Zero, nonrW |-> nonrInit,
          tfsaC |-> Min(tfsaTarget, Max(Zero, Sub(covered, expense))),
          tfsaW |-> Zero, depleted |-> FALSE]

\* the three branches on nonrNeed
PostRetNeed(nonrNeed, expense, rrspW, tfsaTarget, tfsaInit, nonrInit) ==
    IF nonrNeed.n <= 0
    THEN \* RRSP covers expense + TFSA contrib, extra goes into nonr
         [nonrC |-> Neg(nonrNeed), nonrW |-> Zero, tfsaC |-> tfsaTarget, tfsaW |-> Zero,
          depleted |-> FALSE]
    ELSE IF ~GtEps(Sub(nonrNeed, nonrInit))
    THEN \* nonrInit + EPS >= nonrNeed: nonr can cover gap fully
         [nonrC |-> Zero, nonrW |-> nonrNeed, tfsaC |-> tfsaTarget, tfsaW |-> Zero,
          depleted |-> FALSE]
    ELSE PostRetCovered(Add(rrspW, nonrInit), expense, tfsaTarget, tfsaInit, nonrInit)

\* PostRetLadder with the need taken as expense - rrspW
PostRetLadderNoTarget(expense, rrspW, tfsaTarget, tfsaInit, nonrInit) ==
    PostRetNeed(Sub(expense, rrspW), expense, rrspW, tfsaTarget, tfsaInit, nonrInit)

\* POST-RET ladder: let nonrNeed = expense + tfsaC - rrspW
PostRetLadder(expense, rrspW, tfsaTarget, tfsaInit, nonrInit) ==
    PostRetNeed(Sub(Add(expense, tfsaTarget), rrspW), expense, rrspW, tfsaTarget, tfsaInit, nonrInit)

\* if (x < EPS) x = 0
FloorEps(x) == IF LtEps(x) THEN Zero ELSE x

\* LoopInit with the taxable account taken as closed from the start
LoopInitClosed(d) ==
    [rrspEndPrev |-> d.rrspInitialBalance, tfsaEndPrev |-> d.tfsaInitialBalance,
     nonrEndPrev |-> d.nonRegisteredInitialBalance, nonrCleared |-> TRUE, depletedEarly |-> FALSE]

\* the loop-carried state of runProjection before year 0
LoopInit(d) ==
    [rrspEndPrev |-> d.rrspInitialBalance, tfsaEndPrev |-> d.tfsaInitialBalance,
     nonrEndPrev |-> d.nonRegisteredInitialBalance, nonrCleared |-> FALSE, depletedEarly |-> FALSE]

\* YearEnd with the tax-deferred closing balance floored like the other two
YearEndFloored(age, income, expense, rrspInit, rrspC, rrspW, tfsaInit, nonrInit, f) ==
    [age |-> age, income |-> income, expense |-> expense,
     rrspInit |-> rrspInit, rrspC |-> rrspC, rrspW |-> rrspW,
     rrspEnd |-> FloorEps(Sub(Add(rrspInit, rrspC), rrspW)),
     tfsaInit |-> tfsaInit, tfsaC |-> f.tfsaC, tfsaW |-> f.tfsaW,
     tfsaEnd |-> FloorEps(Sub(Add(tfsaInit, f.tfsaC), f.tfsaW)),
     nonrInit |-> nonrInit, nonrC |-> f.nonrC, nonrW |-> f.nonrW,
     nonrEnd |-> FloorEps(Sub(Add(nonrInit, f.nonrC), f.nonrW)),
     depleted |-> f.depleted]

\* the ending balances and the row of year t, from the year's flows f
YearEnd(age, income, expense, rrspInit, rrspC, rrspW, tfsaInit, nonrInit, f) ==
    [age |-> age, income |-> income, expense |-> expense,
     rrspInit |-> rrspInit, rrspC |-> rrspC, rrspW |-> rrspW,
     rrspEnd |-> Sub(Add(rrspInit, rrspC), rrspW),
     tfsaInit |-> tfsaInit, tfsaC |-> f.tfsaC, tfsaW |-> f.tfsaW,
     tfsaEnd |-> FloorEps(Sub(Add(tfsaInit, f.tfsaC), f.tfsaW)),
     nonrInit |-> nonrInit, nonrC |-> f.nonrC, nonrW |-> f.nonrW,
     nonrEnd |-> FloorEps(Sub(Add(nonrInit, f.nonrC), f.nonrW)),
     depleted |-> f.depleted]

\* if (t < yearsToRetire) PRE-RET rule; if (t >= yearsToRetire) POST-RET ladder
YearFlows(preRet, age, income, expense, rrspInit, rrspC, rrspW, tfsaInit, tfsaTarget, nonrInit) ==
    YearEnd(age, income, expense, rrspInit, rrspC, rrspW, tfsaInit, nonrInit,
            IF preRet
            THEN PreRetRule(income, expense, rrspC, tfsaTarget, tfsaInit, nonrInit)
            ELSE PostRetLadder(expense, rrspW, tfsaTarget, tfsaInit, nonrInit))

\* YearRow with the tax-free target never suppressed
YearRowOpenTarget(d, expensesBase, rrspWithdrawFixedUsed, t, st) ==
    YearFlows(t < d.yearsToRetire,
              d.currentAge + t,
              IF t < d.yearsToRetire THEN d.incomeAnnual ELSE Zero,
              Mul(expensesBase, Pow(Add(One, d.inflationRate), t)),
              IF t = 0 THEN d.rrspInitialBalance ELSE Mul(st.rrspEndPrev, Add(One, d.rrspRoi)),
              IF t < d.yearsToRetire THEN d.rrspContribute ELSE Zero,
              IF t >= d.yearsToRetire THEN rrspWithdrawFixedUsed ELSE Zero,
              IF t = 0 THEN d.tfsaInitialBalance ELSE Mul(st.tfsaEndPrev, Add(One, d.tfsaRoi)),
              d.tfsaContribute,
              IF t = 0 THEN d.nonRegisteredInitialBalance
              ELSE Mul(st.nonrEndPrev, Add(One, d.nonRegisteredRoi)))

\* one iteration of the for loop: the values of year t (depleted: whether this
\* year sets depletedEarly)
YearRow(d, expensesBase, rrspWithdrawFixedUsed, t, st) ==
    YearFlows(t < d.yearsToRetire,
              d.currentAge + t,
              IF t < d.yearsToRetire THEN d.incomeAnnual ELSE Zero,
              Mul(expensesBase, Pow(Add(One, d.inflationRate), t)),
              IF t = 0 THEN d.rrspInitialBalance ELSE Mul(st.rrspEndPrev, Add(One, d.rrspRoi)),
              IF t < d.yearsToRetire THEN d.rrspContribute ELSE Zero,
              IF t >= d.yearsToRetire THEN rrspWithdrawFixedUsed ELSE Zero,
              IF t = 0 THEN d.tfsaInitialBalance ELSE Mul(st.tfsaEndPrev, Add(One, d.tfsaRoi)),
              IF st.nonrCleared THEN Zero ELSE d.tfsaContribute,
              IF t = 0 THEN d.nonRegisteredInitialBalance
              ELSE Mul(st.nonrEndPrev, Add(One, d.nonRegisteredRoi)))

\* the fields of a pushed row (depleted is the year's effect on depletedEarly, not a field)
RowOf(r) ==
    [age |-> r.age, income |-> r.income, expense |-> r.expense,
     rrspInit |-> r.rrspInit, rrspC |-> r.rrspC, rrspW |-> r.rrspW, rrspEnd |-> r.rrspEnd,
     tfsaInit |-> r.tfsaInit, tfsaC |-> r.tfsaC, tfsaW |-> r.tfsaW, tfsaEnd |-> r.tfsaEnd,
     nonrInit |-> r.nonrInit, nonrC |-> r.nonrC, nonrW |-> r.nonrW, nonrEnd |-> r.nonrEnd]

\* LoopNext carrying the RRSP balance of the year before instead of this year's
LoopNextStale(st, r) ==
    [rrspEndPrev |-> st.rrspEndPrev, tfsaEndPrev |-> r.tfsaEnd, nonrEndPrev |-> r.nonrEnd,
     nonrCleared |-> st.nonrCleared \/ r.nonrEnd = Zero,
     depletedEarly |-> st.depletedEarly \/ r.depleted]

\* the loop-carried state after the iteration that produced r
LoopNext(st, r) ==
    [rrspEndPrev |-> r.rrspEnd, tfsaEndPrev |-> r.tfsaEnd, nonrEndPrev |-> r.nonrEnd,
     nonrCleared |-> st.nonrCleared \/ r.nonrEnd = Zero,
     depletedEarly |-> st.depletedEarly \/ r.depleted]

\* PushRow without the break
PushRowNoBreak(acc, r, t, yearsToPlanLocal) ==
    [rows |-> Append(acc.rows, RowOf(r)), st |-> LoopNext(acc.st, r), broke |-> FALSE]

\* one pass through the body of the for loop, for year t; acc.broke records the break
\* if (depletedEarly && t < yearsToPlanLocal - 1) break;
PushRow(acc, r, t, yearsToPlanLocal) ==
    [rows |-> Append(acc.rows, RowOf(r)), st |-> LoopNext(acc.st, r),
     broke |-> (acc.st.depletedEarly \/ r.depleted) /\ t < yearsToPlanLocal - 1]

ProjectionYear(d, expensesBase, yearsToPlanLocal, rrspWithdrawFixedUsed, t, acc) ==
    IF acc.broke THEN acc
    ELSE PushRow(acc, YearRow(d, expensesBase, rrspWithdrawFixedUsed, t, acc.st), t, yearsToPlanLocal)

\* the iterations from..to-1 of the for loop, in order (split in halves only to
\* keep the evaluation shallow)
RECURSIVE ProjectionYears(_, _, _, _, _, _, _)
ProjectionYears(d, expensesBase, yearsToPlanLocal, rrspWithdrawFixedUsed, from, to, acc) ==
    IF to <= from THEN acc
    ELSE IF to = from + 1
    THEN ProjectionYear(d, expensesBase, yearsToPlanLocal, rrspWithdrawFixedUsed, from, acc)
    ELSE LET mid == (from + to) \div 2
             m == ProjectionYears(d, expensesBase, yearsToPlanLocal, rrspWithdrawFixedUsed,
                                  from, mid, acc)
         IN  IF m \in {m}
             THEN ProjectionYears(d, expensesBase, yearsToPlanLocal, rrspWithdrawFixedUsed,
                                  mid, to, m)
             ELSE m

\* return { rows, depletedEarly, endingTotal }
ProjectionResult(rows, depletedEarly) ==
    [rows |-> rows, depletedEarly |-> depletedEarly,
     endingTotal |-> IF Len(rows) = 0 THEN Zero
                     ELSE LET last == rows[Len(rows)]
                          IN  Add(Add(last.rrspEnd, last.tfsaEnd), last.nonrEnd)]

ResultOf(r) == ProjectionResult(r.rows, r.st.depletedEarly)

runProjection(d, expensesBase, yearsToPlanLocal, rrspWithdrawFixedUsed) ==
    ResultOf(ProjectionYears(d, expensesBase, yearsToPlanLocal, rrspWithdrawFixedUsed,
                             0, yearsToPlanLocal,
                             [rows |-> <<>>, st |-> LoopInit(d), broke |-> FALSE]))

\* function solveRrspWForHorizon(N)
solveRrspWForHorizon(d, N) ==
    solveRRSPWithdrawal(d.yearsToRetire, N, d.rrspInitialBalance, d.rrspContribute, d.rrspRoi)

\* simulateGivenN counting only the years that ended without depletion
simulateGivenNCovered(d, N, expensesBase) ==
    LET r == runProjection(d, expensesBase, N, solveRrspWForHorizon(d, N))
    IN  Len(r.rows) - (IF r.depletedEarly THEN 1 ELSE 0)

\* function simulateGivenN(N, expensesBase): yearsSurvived
simulateGivenN(d, N, expensesBase) ==
    Len(runProjection(d, expensesBase, N, solveRrspWForHorizon(d, N)).rows)

----------------------------------------------------------------------------
(* The /api/generate-excel handler *)

VARIABLES
    mode,                   \* req.body.mode
    inputs,                 \* req.body.inputs, each field already through toNum / toInt / normalizeRate
    c,                      \* the handler's constants read from the inputs
    pc,                     \* position in the handler
    yearsToPlan, yearsToPlanFinal, rrspWithdrawFixedFinal,
    N, iter,                \* the fixed-point loop of findMaxYears
    lo, hi, i, rrspWForSolve,   \* the bracket and bisection loops of solveExpenses
    solvedInitialExpense,
    finalProjection,
    response,               \* HTTP status sent, 0 while none
    call, t, acc, ppc, result,  \* one call of runProjection, year by year
    field, asNum, asInt,    \* one raw field and what toNum and toInt make of it
    earlier                 \* the calls of runProjection that returned before this one, with their results

hvars == <<mode, inputs, c, pc, yearsToPlan, yearsToPlanFinal, rrspWithdrawFixedFinal, N, iter,
           lo, hi, i, rrspWForSolve, solvedInitialExpense, finalProjection, response>>
evars == <<call, t, acc, ppc, result>>
nvars == <<field, asNum, asInt>>
vars == <<hvars, evars, nvars, earlier>>

\* null, and a binding that has not been initialized yet
Null == [n |-> 0, d |-> 0, e |-> 0, m |-> <<>>]
NoProjection == [rows |-> <<>>, depletedEarly |-> FALSE, endingTotal |-> Null]
NoCall == [expensesBase |-> Null, yearsToPlanLocal |-> 0, rrspWithdrawFixedUsed |-> Null]
NoAcc == [rows |-> <<>>, st |-> LoopInit([rrspInitialBalance |-> Null, tfsaInitialBalance |-> Null,
                                          nonRegisteredInitialBalance |-> Null]),
          broke |-> FALSE]

Half == [n |-> 1, d |-> 1, e |-> 1, m |-> <<>>]

MAX_YEARS_CAP == 120
MaxFixedPointIter == 25
MaxBisectIterMore == 50 + 1
MaxBisectIter == 50
MinHi == 1000
HiCapLow == 2 * 1000
HiCap == 1000000000

\* bounds of the enumerated requests
MaxRetire == 2
MaxPlan == 3
MaxExpense == 2

Modes == {"standard", "findMaxYears", "solveExpenses"}

Nums(S) == {Num(k) : k \in S}
ExpenseLevels == {15 * k : k \in 0..MaxExpense}

\* standard: every field varies, horizons up to MaxPlan
StandardInputs ==
    [currentAge : {40}, yearsToRetire : -1..MaxRetire, yearsToPlan : 0..MaxPlan,
     incomeAnnual : Nums({0, 20}), expensesAnnual : Nums(ExpenseLevels),
     inflationRate : {Zero, Num(50)},
     rrspInitialBalance : Nums({0, 100}), rrspContribute : Nums({5}), rrspRoi : {Zero, One},
     tfsaInitialBalance : Nums({10}), tfsaContribute : Nums({0, 5}), tfsaRoi : {Half},
     nonRegisteredInitialBalance : Nums({0, 10}), nonRegisteredRoi : {Zero}]

\* a request whose candidate horizon falls on each of the 25 passes: what is saved
\* outside the registered accounts is owed back two and a half times a year later
\* (nonRegisteredRoi = -3.5), so a larger withdrawal leaves less
SlowHorizonInputs ==
    [currentAge |-> 40, yearsToRetire |-> 0, yearsToPlan |-> 0,
     incomeAnnual |-> Zero, expensesAnnual |-> Num(3),
     inflationRate |-> Half,
     rrspInitialBalance |-> Num(12957), rrspContribute |-> Zero, rrspRoi |-> Zero,
     tfsaInitialBalance |-> Zero, tfsaContribute |-> Num(1531), tfsaRoi |-> Half,
     nonRegisteredInitialBalance |-> Num(2240),
     nonRegisteredRoi |-> [n |-> -7, d |-> 1, e |-> 1, m |-> <<>>]]

\* findMaxYears: the first pass always simulates MAX_YEARS_CAP years, so the rates are 0
\* but for SlowHorizonInputs
FindMaxYearsGrid ==
    [currentAge : {40}, yearsToRetire : 0..MaxRetire, yearsToPlan : {0},
     incomeAnnual : Nums({0, 20}), expensesAnnual : Nums(ExpenseLevels),
     inflationRate : {Zero},
     rrspInitialBalance : Nums({0, 100}), rrspContribute : Nums({5}), rrspRoi : {Zero},
     tfsaInitialBalance : Nums({0, 10}), tfsaContribute : Nums({0, 5}), tfsaRoi : {Zero},
     nonRegisteredInitialBalance : Nums({0, 10}), nonRegisteredRoi : {Zero}]

\* solveExpenses: nothing is owned or earned, so every positive expense depletes and
\* the bracket is halved 50 times towards 0
SolveExpensesGrid ==
    [currentAge : {40}, yearsToRetire : 0..MaxRetire, yearsToPlan : 0..MaxPlan,
     incomeAnnual : {Zero}, expensesAnnual : Nums({0, 15}),
     inflationRate : {Zero, One},
     rrspInitialBalance : {Zero}, rrspContribute : {Zero}, rrspRoi : {Zero, One},
     tfsaInitialBalance : {Zero}, tfsaContribute : {Zero}, tfsaRoi : {Zero},
     nonRegisteredInitialBalance : {Zero}, nonRegisteredRoi : {Zero}]

\* solveExpenses for one working year paid from income alone: the bracket is doubled
\* until the expense passes the income, or until the cap when the income is beyond it;
\* with no income the contribution alone is more than the year can pay
BracketInputs ==
    [currentAge : {40}, yearsToRetire : {1}, yearsToPlan : {1},
     incomeAnnual : {Zero, Num(5000), Mul(Num(50000), Num(50000))}, expensesAnnual : {Zero},
     inflationRate : {Zero},
     rrspInitialBalance : {Zero}, rrspContribute : Nums({0, 5}), rrspRoi : {Zero},
     tfsaInitialBalance : {Zero}, tfsaContribute : {Zero}, tfsaRoi : {Zero},
     nonRegisteredInitialBalance : {Zero}, nonRegisteredRoi : {Zero}]

FindMaxYearsInputs == FindMaxYearsGrid \cup {SlowHorizonInputs}
SolveExpensesInputs == SolveExpensesGrid \cup BracketInputs

RequestInputs(m) ==
    IF m = "standard" THEN StandardInputs
    ELSE IF m = "findMaxYears" THEN FindMaxYearsInputs
    ELSE SolveExpensesInputs

NoEnv ==
    [currentAge |-> 0, yearsToRetire |-> 0, incomeAnnual |-> Null, expensesAnnual |-> Null,
     inflationRate |-> Null, rrspInitialBalance |-> Null, rrspContribute |-> Null, rrspRoi |-> Null,
     tfsaInitialBalance |-> Null, tfsaContribute |-> Null, tfsaRoi |-> Null,
     nonRegisteredInitialBalance |-> Null, nonRegisteredRoi |-> Null]

MaxInt(a, b) == IF a > b THEN a ELSE b

\* 2 -> 0.02, 0.02 -> 0.02
normalizeRate(x) == IF Less(One, x) THEN Div(x, Num(100)) ELSE x

\* lines 75-98: the constants of the handler
Env(d) ==
    [currentAge |-> d.currentAge, yearsToRetire |-> MaxInt(0, d.yearsToRetire),
     incomeAnnual |-> d.incomeAnnual, expensesAnnual |-> d.expensesAnnual,
     inflationRate |-> normalizeRate(d.inflationRate),
     rrspInitialBalance |-> d.rrspInitialBalance, rrspContribute |-> d.rrspContribute,
     rrspRoi |-> normalizeRate(d.rrspRoi),
     tfsaInitialBalance |-> d.tfsaInitialBalance, tfsaContribute |-> d.tfsaContribute,
     tfsaRoi |-> normalizeRate(d.tfsaRoi),
     nonRegisteredInitialBalance |-> d.nonRegisteredInitialBalance,
     nonRegisteredRoi |-> normalizeRate(d.nonRegisteredRoi)]

EngineIdle ==
    /\ call = NoCall /\ t = 0 /\ acc = NoAcc /\ ppc = "off" /\ result = NoProjection

NormalizerIdle == field = Undefined /\ asNum = Null /\ asInt = Null

HandlerIdle ==
    /\ yearsToPlan = 0 /\ yearsToPlanFinal = 0 /\ rrspWithdrawFixedFinal = Null
    /\ N = 0 /\ iter = 0
    /\ lo = Null /\ hi = Null /\ i = 0 /\ rrspWForSolve = Null
    /\ solvedInitialExpense = Null
    /\ finalProjection = NoProjection
    /\ response = 0

Init ==
    /\ mode \in Modes
    /\ inputs \in RequestInputs(mode)
    /\ c = NoEnv
    /\ pc = "start"
    /\ HandlerIdle
    /\ EngineIdle
    /\ NormalizerIdle
    /\ earlier = <<>>

\* lines 71-107, 252-253, 257
ReadInputs ==
    /\ pc = "start"
    /\ c' = Env(inputs)
    /\ yearsToPlan' = IF mode = "findMaxYears" THEN MAX_YEARS_CAP ELSE MaxInt(1, inputs.yearsToPlan)
    /\ yearsToPlanFinal' = MaxInt(1, yearsToPlan')
    /\ rrspWithdrawFixedFinal' = Null
    /\ N' = IF mode = "findMaxYears" THEN MAX_YEARS_CAP ELSE N
    /\ iter' = 0
    /\ pc' = IF mode = "findMaxYears" THEN "fixedPoint" ELSE "solveW"
    /\ UNCHANGED <<nvars, earlier, mode, inputs, lo, hi, i, rrspWForSolve, solvedInitialExpense, finalProjection,
                   response, evars>>

\* Stable accepting any horizon not yet reached
StableLoose(yearsSurvived, n) == yearsSurvived <= n

\* line 265: if (yearsSurvived === N)
Stable(yearsSurvived, n) == yearsSurvived = n

\* lines 261-280: one pass through the body of the fixed-point loop
FixedPointPass ==
    /\ pc = "fixedPoint"
    /\ \E yearsSurvived \in {simulateGivenN(c, N, c.expensesAnnual)} :
           IF Stable(yearsSurvived, N)
           THEN \* stable -> done
                /\ yearsToPlanFinal' = N
                /\ rrspWithdrawFixedFinal' = solveRrspWForHorizon(c, N)
                /\ N' = N
                /\ iter' = iter
                /\ pc' = "afterFixedPoint"
           ELSE IF yearsSurvived <= 0
           THEN \* guard
                /\ N' = yearsSurvived
                /\ yearsToPlanFinal' = 0
                /\ rrspWithdrawFixedFinal' = Zero
                /\ iter' = iter
                /\ pc' = "afterFixedPoint"
           ELSE /\ N' = yearsSurvived
                /\ iter' = iter + 1
                /\ pc' = IF iter + 1 < MaxFixedPointIter THEN "fixedPoint" ELSE "afterFixedPoint"
                /\ UNCHANGED <<yearsToPlanFinal, rrspWithdrawFixedFinal>>
    /\ UNCHANGED <<nvars, earlier, mode, inputs, c, yearsToPlan, lo, hi, i, rrspWForSolve, solvedInitialExpense,
                   finalProjection, response, evars>>

\* lines 282-286: if we didn't set it in loop (rare), finalize with last N
FinalizeFixedPoint ==
    /\ pc = "afterFixedPoint"
    /\ IF rrspWithdrawFixedFinal = Null
       THEN /\ yearsToPlanFinal' = MaxInt(1, N)
            /\ rrspWithdrawFixedFinal' = solveRrspWForHorizon(c, MaxInt(1, N))
       ELSE UNCHANGED <<yearsToPlanFinal, rrspWithdrawFixedFinal>>
    /\ pc' = "solveW"
    /\ UNCHANGED <<nvars, earlier, mode, inputs, c, yearsToPlan, N, iter, lo, hi, i, rrspWForSolve,
                   solvedInitialExpense, finalProjection, response, evars>>

\* lines 289-298, and the test of line 300
SolveFinalWithdrawal ==
    /\ pc = "solveW"
    /\ rrspWithdrawFixedFinal' =
           IF rrspWithdrawFixedFinal = Null
           THEN solveRRSPWithdrawal(c.yearsToRetire, yearsToPlanFinal, c.rrspInitialBalance,
                                    c.rrspContribute, c.rrspRoi)
           ELSE rrspWithdrawFixedFinal
    /\ pc' = IF mode = "solveExpenses" THEN "bracket" ELSE "final"
    /\ UNCHANGED <<nvars, earlier, mode, inputs, c, yearsToPlan, yearsToPlanFinal, N, iter, lo, hi, i, rrspWForSolve,
                   solvedInitialExpense, finalProjection, response, evars>>

\* lines 302-306
StartBracket ==
    /\ pc = "bracket"
    /\ rrspWForSolve' = solveRrspWForHorizon(c, MaxInt(1, yearsToPlan))
    /\ lo' = Zero
    /\ hi' = Max(Num(MinHi),
                 Mul(Add(Add(c.rrspInitialBalance, c.tfsaInitialBalance),
                         c.nonRegisteredInitialBalance), Two))
    /\ pc' = "expand"
    /\ UNCHANGED <<nvars, earlier, mode, inputs, c, yearsToPlan, yearsToPlanFinal, rrspWithdrawFixedFinal, N, iter, i,
                   solvedInitialExpense, finalProjection, response, evars>>

\* line 308: one test of the while condition, and lines 309 / 312 after it
ExpandHi ==
    /\ pc = "expand"
    /\ IF ~runProjection(c, hi, MaxInt(1, yearsToPlan), rrspWForSolve).depletedEarly
          /\ Less(hi, Num(HiCap))
       THEN /\ hi' = Mul(hi, Two)
            /\ UNCHANGED <<pc, i>>
       ELSE /\ i' = 0
            /\ pc' = "bisect"
            /\ UNCHANGED hi
    /\ UNCHANGED <<nvars, earlier, mode, inputs, c, yearsToPlan, yearsToPlanFinal, rrspWithdrawFixedFinal, N, iter, lo,
                   rrspWForSolve, solvedInitialExpense, finalProjection, response, evars>>

\* lines 312-321: one pass through the body of the bisection loop
Bisect ==
    /\ pc = "bisect"
    /\ i < MaxBisectIter
    /\ \E mid \in {Div(Add(lo, hi), Two)} :
           IF runProjection(c, mid, MaxInt(1, yearsToPlan), rrspWForSolve).depletedEarly
           THEN hi' = mid /\ UNCHANGED lo
           ELSE lo' = mid /\ UNCHANGED hi
    /\ i' = i + 1
    /\ UNCHANGED <<nvars, earlier, mode, inputs, c, pc, yearsToPlan, yearsToPlanFinal, rrspWithdrawFixedFinal, N, iter,
                   rrspWForSolve, solvedInitialExpense, finalProjection, response, evars>>

\* line 323: solvedInitialExpense = Math.round(lo).  The binding is declared by the
\* `let` of line 326, in the same block and after this statement, so it is still
\* uninitialized here and the assignment throws a ReferenceError.
AssignSolvedExpense ==
    /\ pc = "bisect"
    /\ i >= MaxBisectIter
    /\ pc' = "catch"
    /\ UNCHANGED <<nvars, earlier, mode, inputs, c, yearsToPlan, yearsToPlanFinal, rrspWithdrawFixedFinal, N, iter,
                   lo, hi, i, rrspWForSolve, solvedInitialExpense, finalProjection, response, evars>>

\* lines 326-341: Run the final simulation ONCE
FinalRun ==
    /\ pc = "final"
    /\ LET expenseBase == IF mode = "solveExpenses" THEN solvedInitialExpense ELSE c.expensesAnnual
       IN  finalProjection' = runProjection(c, expenseBase, yearsToPlanFinal, rrspWithdrawFixedFinal)
    /\ pc' = "render"
    /\ UNCHANGED <<nvars, earlier, mode, inputs, c, yearsToPlan, yearsToPlanFinal, rrspWithdrawFixedFinal, N, iter,
                   lo, hi, i, rrspWForSolve, solvedInitialExpense, response, evars>>

\* lines 343-469: the workbook is built from finalProjection.rows and sent
Render ==
    /\ pc = "render"
    /\ response' = 200
    /\ pc' = "done"
    /\ UNCHANGED <<nvars, earlier, mode, inputs, c, yearsToPlan, yearsToPlanFinal, rrspWithdrawFixedFinal, N, iter,
                   lo, hi, i, rrspWForSolve, solvedInitialExpense, finalProjection, evars>>

\* lines 470-473
Catch ==
    /\ pc = "catch"
    /\ response' = 500
    /\ pc' = "done"
    /\ UNCHANGED <<nvars, earlier, mode, inputs, c, yearsToPlan, yearsToPlanFinal, rrspWithdrawFixedFinal, N, iter,
                   lo, hi, i, rrspWForSolve, solvedInitialExpense, finalProjection, evars>>

Next ==
    \/ ReadInputs
    \/ FixedPointPass
    \/ FinalizeFixedPoint
    \/ SolveFinalWithdrawal
    \/ StartBracket
    \/ ExpandHi
    \/ Bisect
    \/ AssignSolvedExpense
    \/ FinalRun
    \/ Render
    \/ Catch

Spec == Init /\ [][Next]_vars

\* The handler runs to its response: no step of it waits for anything.  This is
\* WF_vars(Next) with ENABLED <<Next>>_vars written out as pc # "done".
FairSpec == Spec /\ ([]<>(pc = "done") \/ []<><<Next>>_vars)

----------------------------------------------------------------------------
(* The engine on its own: solveRrspWForHorizon and one call of runProjection,  *)
(* the for loop taken one year at a time, for constants of either sign.        *)

FixedWithdrawals == Nums({7, -2})

EngineGrid ==
    [currentAge : {40}, yearsToRetire : 0..MaxRetire,
     incomeAnnual : Nums({0, 20}), expensesAnnual : {Zero},
     inflationRate : {Zero, One},
     rrspInitialBalance : Nums({-50, 0, 100}), rrspContribute : Nums({5}), rrspRoi : {Zero, One},
     tfsaInitialBalance : Nums({10}), tfsaContribute : Nums({0, 5}), tfsaRoi : {Half},
     nonRegisteredInitialBalance : Nums({-10, 0, 10}), nonRegisteredRoi : {Zero, One}]

\* fractional amounts: the first year needs 0.1 + 0.2, and the 0.3 of the taxable
\* account leaves 2^-54 of it short
ResidueEnvs ==
    [currentAge : {40}, yearsToRetire : {1},
     incomeAnnual : {Zero}, expensesAnnual : {Zero},
     inflationRate : {Zero},
     rrspInitialBalance : {Zero}, rrspContribute : {Div(Num(1), Num(10))}, rrspRoi : {Zero},
     tfsaInitialBalance : Nums({10}), tfsaContribute : {Div(Num(2), Num(10))}, tfsaRoi : {Half},
     nonRegisteredInitialBalance : {Div(Num(3), Num(10))}, nonRegisteredRoi : {Zero}]

\* two working years whose income pays a large tax-free contribution, and a taxable
\* account that grows faster than the tax-free one: whether the first year closes
\* the taxable account decides where the savings of the second year go
SwitchEnvs ==
    [currentAge : {40}, yearsToRetire : {2},
     incomeAnnual : Nums({150}), expensesAnnual : {Zero},
     inflationRate : {One},
     rrspInitialBalance : {Zero}, rrspContribute : {Zero}, rrspRoi : {Zero},
     tfsaInitialBalance : Nums({10}), tfsaContribute : Nums({150}), tfsaRoi : {Zero},
     nonRegisteredInitialBalance : Nums({30}), nonRegisteredRoi : {One}]

\* one working year with an income of 33,554,432.10, where a double is a multiple
\* of 2^-28, and a contribution of 0.10
LargeEnvs ==
    [currentAge : {40}, yearsToRetire : {1},
     incomeAnnual : {Div(Num(335544321), Num(10))}, expensesAnnual : {Zero},
     inflationRate : {Zero},
     rrspInitialBalance : {Zero}, rrspContribute : {Div(Num(1), Num(10))}, rrspRoi : {Zero},
     tfsaInitialBalance : {Zero}, tfsaContribute : {Zero}, tfsaRoi : {Zero},
     nonRegisteredInitialBalance : {Zero}, nonRegisteredRoi : {Zero}]

\* a negative tax-free contribution, which toNum lets through
DebitEnvs ==
    [currentAge : {40}, yearsToRetire : {1},
     incomeAnnual : Nums({0, 20}), expensesAnnual : {Zero},
     inflationRate : {Zero},
     rrspInitialBalance : {Zero}, rrspContribute : Nums({5}), rrspRoi : {Zero},
     tfsaInitialBalance : Nums({10}), tfsaContribute : Nums({-5}), tfsaRoi : {Zero},
     nonRegisteredInitialBalance : Nums({0, 10}), nonRegisteredRoi : {Zero}]

EngineEnvs == EngineGrid \cup ResidueEnvs \cup SwitchEnvs \cup LargeEnvs \cup DebitEnvs

InitEngine ==
    /\ mode = "engine"
    /\ inputs = NoEnv
    /\ c \in EngineEnvs
    /\ pc = "engine"
    /\ HandlerIdle
    /\ call = NoCall /\ t = 0 /\ acc = NoAcc /\ ppc = "idle" /\ result = NoProjection
    /\ NormalizerIdle
    /\ earlier = <<>>

\* solveRrspWForHorizon(n)
SolveForHorizon ==
    /\ ppc = "idle"
    /\ \E n \in 0..(MaxPlan + 1) :
           /\ yearsToPlanFinal' = n
           /\ rrspWithdrawFixedFinal' = solveRrspWForHorizon(c, n)
    /\ ppc' = "solved"
    /\ UNCHANGED <<nvars, earlier, mode, inputs, c, pc, yearsToPlan, N, iter, lo, hi, i, rrspWForSolve,
                   solvedInitialExpense, finalProjection, response, call, t, acc, result>>

\* lines 111-119: runProjection is entered, with the solved withdrawal or a fixed one
EnterProjection ==
    /\ ppc = "solved"
    /\ \E eb \in Nums(ExpenseLevels), w \in {rrspWithdrawFixedFinal} \cup FixedWithdrawals :
           call' = [expensesBase |-> eb, yearsToPlanLocal |-> yearsToPlanFinal,
                    rrspWithdrawFixedUsed |-> w]
    /\ t' = 0
    /\ acc' = [rows |-> <<>>, st |-> LoopInit(c), broke |-> FALSE]
    /\ ppc' = "loop"
    /\ UNCHANGED <<nvars, earlier, hvars, result>>

\* lines 121-227: one pass through the body of the for loop
LoopYear ==
    /\ ppc = "loop"
    /\ t < call.yearsToPlanLocal
    /\ ~acc.broke
    /\ acc' = ProjectionYear(c, call.expensesBase, call.yearsToPlanLocal,
                             call.rrspWithdrawFixedUsed, t, acc)
    /\ t' = t + 1
    /\ UNCHANGED <<nvars, earlier, hvars, call, ppc, result>>

\* lines 229-232
ReturnProjection ==
    /\ ppc = "loop"
    /\ t >= call.yearsToPlanLocal \/ acc.broke
    /\ result' = ResultOf(acc)
    /\ ppc' = "returned"
    /\ UNCHANGED <<nvars, earlier, hvars, call, t, acc>>

NextEngine ==
    \/ SolveForHorizon
    \/ EnterProjection
    \/ LoopYear
    \/ ReturnProjection

SpecEngine == InitEngine /\ [][NextEngine]_vars

----------------------------------------------------------------------------
(* runProjection called again and again within one request (SpecCalls): each  *)
(* call starts where the one before it left the variables of the model.       *)

MaxCalls == 3

CallEnvs ==
    [currentAge : {40}, yearsToRetire : {0, 1},
     incomeAnnual : Nums({20}), expensesAnnual : {Zero},
     inflationRate : {One},
     rrspInitialBalance : Nums({100}), rrspContribute : Nums({5}), rrspRoi : {One},
     tfsaInitialBalance : Nums({10}), tfsaContribute : Nums({5}), tfsaRoi : {Half},
     nonRegisteredInitialBalance : Nums({10}), nonRegisteredRoi : {One}]

\* the arguments of the calls: (expensesBase, yearsToPlanLocal, rrspWithdrawFixedUsed)
CallArgs ==
    [expensesBase : Nums({0, 30}), yearsToPlanLocal : {1, 2}, rrspWithdrawFixedUsed : Nums({0, 7})]

InitCalls ==
    /\ mode = "calls"
    /\ inputs = NoEnv
    /\ c \in CallEnvs
    /\ pc = "engine"
    /\ HandlerIdle
    /\ EngineIdle
    /\ NormalizerIdle
    /\ earlier = <<>>

\* the locals of runProjection with the values their declarations keep from the call before
KeptLocals(d) == [rows |-> <<>>, st |-> acc.st, broke |-> FALSE]

\* lines 112-119: the locals of runProjection, declared and initialized by every call
FreshLocals(d) == [rows |-> <<>>, st |-> LoopInit(d), broke |-> FALSE]

\* runProjection is called, for the first time or after another call has returned
CallProjection ==
    /\ ppc \in {"off", "returned"}
    /\ Len(earlier) + (IF ppc = "returned" THEN 1 ELSE 0) < MaxCalls
    /\ earlier' = IF ppc = "returned"
                  THEN Append(earlier, [call |-> call, result |-> result])
                  ELSE earlier
    /\ call' \in CallArgs
    /\ t' = 0
    /\ acc' = FreshLocals(c)
    /\ ppc' = "loop"
    /\ UNCHANGED <<nvars, hvars, result>>

NextCalls ==
    \/ CallProjection
    \/ LoopYear
    \/ ReturnProjection

SpecCalls == InitCalls /\ [][NextCalls]_vars

----------------------------------------------------------------------------
(* The normalizers applied to one raw field (SpecNormalize) *)

\* the characters of a field: two digits, the point, the sign, a letter, a space
FieldChars == {"0", "7", ".", "-", "a", " "}
MaxText == 3

RECURSIVE Texts(_)
Texts(len) ==
    IF len = 0 THEN {<<>>}
    ELSE Texts(len - 1) \cup {Append(s, ch) : s \in {u \in Texts(len - 1) : Len(u) = len - 1},
                                               ch \in FieldChars}

RawFields == {Undefined, JsNull} \cup {Text(s) : s \in Texts(MaxText)}

InitNormalize ==
    /\ mode = "normalize"
    /\ inputs = NoEnv
    /\ c = NoEnv
    /\ pc = "normalize"
    /\ HandlerIdle
    /\ EngineIdle
    /\ field \in RawFields
    /\ asNum = Null /\ asInt = Null
    /\ earlier = <<>>

\* toNum(d.<field>)
ApplyToNum ==
    /\ pc = "normalize"
    /\ asNum = Null
    /\ asNum' = toNum(field)
    /\ UNCHANGED <<hvars, evars, earlier, field, asInt>>

\* toInt(d.<field>)
ApplyToInt ==
    /\ pc = "normalize"
    /\ asInt = Null
    /\ asInt' = toInt(field, Zero)
    /\ UNCHANGED <<hvars, evars, earlier, field, asNum>>

NextNormalize ==
    \/ ApplyToNum
    \/ ApplyToInt

SpecNormalize == InitNormalize /\ [][NextNormalize]_vars

----------------------------------------------------------------------------
(* Properties of the engine (SpecEngine)                                       *)

InCall == ppc \in {"loop", "returned"}

\* the row pushed last
LastRow == acc.rows[Len(acc.rows)]

Within(x) == ~GtEps(Abs(x))

\* end = init + contribution - withdrawal, within EPS, for the three accounts of a row
Balanced(r) ==
    /\ Within(Sub(r.rrspEnd, Sub(Add(r.rrspInit, r.rrspC), r.rrspW)))
    /\ Within(Sub(r.tfsaEnd, Sub(Add(r.tfsaInit, r.tfsaC), r.tfsaW)))
    /\ Within(Sub(r.nonrEnd, Sub(Add(r.nonrInit, r.nonrC), r.nonrW)))

NonNegativeSavings ==
    /\ c.tfsaInitialBalance.n >= 0 /\ c.nonRegisteredInitialBalance.n >= 0
    /\ c.tfsaContribute.n >= 0
    /\ c.tfsaRoi.n >= 0 /\ c.nonRegisteredRoi.n >= 0

C2_RowCount ==
    /\ InCall => /\ Len(acc.rows) = t
                 /\ t <= call.yearsToPlanLocal
                 /\ \A k \in 1..Len(acc.rows) : acc.rows[k].age = c.currentAge + k - 1
                 /\ acc.broke <=> (acc.st.depletedEarly /\ t < call.yearsToPlanLocal)
    /\ ppc = "returned" =>
                 /\ result = runProjection(c, call.expensesBase, call.yearsToPlanLocal,
                                           call.rrspWithdrawFixedUsed)
                 /\ result.rows = acc.rows
                 /\ result.depletedEarly = acc.st.depletedEarly
                 /\ IF acc.broke THEN Len(result.rows) < call.yearsToPlanLocal
                                 ELSE Len(result.rows) = call.yearsToPlanLocal

\* a call that returned after a break in its second year or later
C2_Witness ==
    /\ ppc = "returned" /\ acc.broke
    /\ Len(result.rows) >= 2 /\ Len(result.rows) < call.yearsToPlanLocal

SolvedCall ==
    /\ ppc = "returned"
    /\ call.rrspWithdrawFixedUsed = rrspWithdrawFixedFinal
    /\ call.yearsToPlanLocal > c.yearsToRetire
    /\ Len(result.rows) = call.yearsToPlanLocal

\* the ending balance of the solver's own simulation for the withdrawal W
SimEnd(W) == simulate(W, c.yearsToRetire, yearsToPlanFinal, c.rrspInitialBalance,
                      c.rrspContribute, c.rrspRoi)

Solved == ppc = "solved"

\* C10: solveRRSPWithdrawal returns the root a0 / (a0 - a1) of the linear ending
\* balance when the slope a0 - a1 is positive and the root is not negative, and 0
\* otherwise; the result is never negative and is 0 when the horizon does not
\* exceed yearsToRetire.
C10_SolverResult ==
    Solved =>
        /\ rrspWithdrawFixedFinal.n >= 0
        /\ yearsToPlanFinal <= c.yearsToRetire => rrspWithdrawFixedFinal = Zero
        /\ IF Less(SimEnd(One), SimEnd(Zero)) /\ SimEnd(Zero).n >= 0
           THEN rrspWithdrawFixedFinal = Div(SimEnd(Zero), Sub(SimEnd(Zero), SimEnd(One)))
           ELSE rrspWithdrawFixedFinal = Zero

\* a positive root that is not a whole number, for a retirement after year 0
C10_Witness ==
    /\ Solved /\ c.yearsToRetire > 0
    /\ rrspWithdrawFixedFinal.n > 0 /\ rrspWithdrawFixedFinal.e > 9

\* the opening balances of row k: the initial balances in year 0, later the closing
\* balances recorded in row k - 1 grown by one year
OpensFrom(rows, k) ==
    IF k = 1
    THEN /\ rows[k].rrspInit = c.rrspInitialBalance
         /\ rows[k].tfsaInit = c.tfsaInitialBalance
         /\ rows[k].nonrInit = c.nonRegisteredInitialBalance
    ELSE /\ rows[k].rrspInit = Mul(rows[k - 1].rrspEnd, Add(One, c.rrspRoi))
         /\ rows[k].tfsaInit = Mul(rows[k - 1].tfsaEnd, Add(One, c.tfsaRoi))
         /\ rows[k].nonrInit = Mul(rows[k - 1].nonrEnd, Add(One, c.nonRegisteredRoi))

\* C11: in every projection and for each account, the opening balance of year 0 is
\* the initial balance with no return applied, and the opening balance of every
\* later year is the closing balance recorded in the row before times (1 + rate).
C11_OpeningBalances ==
    /\ InCall => \A k \in 1..Len(acc.rows) : OpensFrom(acc.rows, k)
    /\ ppc = "returned" => \A k \in 1..Len(result.rows) : OpensFrom(result.rows, k)

\* a third year whose three accounts all opened on a grown, non-zero balance
C11_Witness ==
    /\ ppc = "returned" /\ Len(result.rows) >= 3
    /\ c.rrspRoi = One /\ c.nonRegisteredRoi = One
    /\ result.rows[2].rrspEnd.n > 0 /\ result.rows[2].tfsaEnd.n > 0 /\ result.rows[2].nonrEnd.n > 0
    /\ result.rows[3].rrspInit # result.rows[2].rrspEnd
    /\ result.rows[3].tfsaInit # result.rows[2].tfsaEnd
    /\ result.rows[3].nonrInit # result.rows[2].nonrEnd

\* what the year of row r left uncovered: expense and contributions less income and
\* withdrawals, above EPS
Uncovered(r) ==
    GtEps(Sub(Add(Add(Add(r.expense, r.rrspC), r.tfsaC), r.nonrC),
              Add(Add(Add(r.income, r.rrspW), r.nonrW), r.tfsaW)))

PreRetirementRow == InCall /\ Len(acc.rows) > 0 /\ Len(acc.rows) <= c.yearsToRetire

\* expense + tax-deferred contribution + tax-free contribution of the year of row r
PreRetNeedOf(r) == Add(Add(r.expense, r.rrspC), r.tfsaC)

\* what income leaves short of it, and what the taxable withdrawal leaves short
ShortOf(r) == Sub(PreRetNeedOf(r), r.income)
ShortAfterNonr(r) == Sub(ShortOf(r), r.nonrW)

\* the surplus case of the pre-retirement rule
PreRetSurplus(r) ==
    /\ r.nonrC = Sub(r.income, PreRetNeedOf(r))
    /\ r.rrspW = Zero /\ r.nonrW = Zero /\ r.tfsaW = Zero
    /\ ~acc.st.depletedEarly

\* C18 as stated: in every pre-retirement year, if income >= expense + both
\* contributions, the taxable contribution is that surplus and nothing is
\* withdrawn; otherwise the shortfall is taken from the taxable account up to its
\* opening balance, then from the tax-free account up to its opening balance plus
\* the year's contribution, and the flag is set exactly when more than epsilon
\* remains short after both.
C18_PreRetirementRule ==
    PreRetirementRow =>
        IF Leq(PreRetNeedOf(LastRow), LastRow.income)
        THEN PreRetSurplus(LastRow)
        ELSE /\ LastRow.nonrW = Min(LastRow.nonrInit, ShortOf(LastRow))
             /\ LastRow.tfsaW = Min(Add(LastRow.tfsaInit, LastRow.tfsaC), ShortAfterNonr(LastRow))
             /\ acc.st.depletedEarly <=> GtEps(Sub(ShortAfterNonr(LastRow), LastRow.tfsaW))

\* C18 amended: the same, with the tax-free account withdrawn from only when more
\* than epsilon is still short after the taxable withdrawal.
C18_PreRetirementRuleAboveEps ==
    PreRetirementRow =>
        IF Leq(PreRetNeedOf(LastRow), LastRow.income)
        THEN PreRetSurplus(LastRow)
        ELSE /\ LastRow.nonrW = Min(LastRow.nonrInit, ShortOf(LastRow))
             /\ LastRow.tfsaW = (IF GtEps(ShortAfterNonr(LastRow))
                                 THEN Min(Add(LastRow.tfsaInit, LastRow.tfsaC), ShortAfterNonr(LastRow))
                                 ELSE Zero)
             /\ acc.st.depletedEarly <=> GtEps(Sub(ShortAfterNonr(LastRow), LastRow.tfsaW))

\* a pre-retirement year that emptied the taxable account, then the tax-free
\* account with its contribution, and was still short
C18_Witness ==
    /\ PreRetirementRow
    /\ LastRow.nonrW.n > 0 /\ LastRow.nonrW = LastRow.nonrInit
    /\ LastRow.tfsaC.n > 0 /\ LastRow.tfsaW = Add(LastRow.tfsaInit, LastRow.tfsaC)
    /\ acc.st.depletedEarly

\* the row pushed last is the row of a retirement year
RetirementRow == InCall /\ Len(acc.rows) > c.yearsToRetire

\* what the fixed withdrawal and the two other withdrawals of row r leave of its expense
RemainingOf(r) == Sub(Sub(r.expense, Add(r.rrspW, r.nonrW)), r.tfsaW)

\* C19: in every retirement year the tax-free account is withdrawn from only if
\* the taxable account has withdrawn its entire opening balance in that year, and
\* the depletion flag is set in a retirement year only if both the taxable and the
\* tax-free opening balances were withdrawn in full and a shortfall above epsilon
\* still remains.
C19_WithdrawalOrder ==
    RetirementRow =>
        /\ LastRow.tfsaW # Zero => LastRow.nonrW = LastRow.nonrInit
        /\ acc.st.depletedEarly =>
               /\ LastRow.nonrW = LastRow.nonrInit
               /\ LastRow.tfsaW = LastRow.tfsaInit
               /\ GtEps(RemainingOf(LastRow))

\* a retirement year that emptied the taxable account, then the tax-free
\* account, and was still short
C19_Witness ==
    /\ RetirementRow
    /\ LastRow.nonrInit.n > 0 /\ LastRow.nonrW = LastRow.nonrInit
    /\ LastRow.tfsaInit.n > 0 /\ LastRow.tfsaW = LastRow.tfsaInit
    /\ acc.st.depletedEarly

\* the tax-free contribution target of the year of the row pushed last: the input,
\* or 0 once a row before it closed the taxable account at zero
LastTarget ==
    IF \E j \in 1..(Len(acc.rows) - 1) : acc.rows[j].nonrEnd = Zero
    THEN Zero
    ELSE c.tfsaContribute

ClosedBefore(rows, k) == \E j \in 1..(k - 1) : rows[j].nonrEnd = Zero

\* C21 as stated: once the taxable closing balance is zero in some year of a
\* projection, the taxable account receives no contribution and its closing
\* balance stays zero in all subsequent years of that projection.
C21_TaxableStaysClosed ==
    InCall => \A k \in 1..Len(acc.rows) :
                  ClosedBefore(acc.rows, k) =>
                      acc.rows[k].nonrC = Zero /\ acc.rows[k].nonrEnd = Zero

\* C21 amended: once the taxable closing balance is zero in some year of a
\* projection, the closed flag stays set and the tax-free account receives no
\* contribution in all subsequent years of that projection.
C21_ClosedStopsTaxFreeContribution ==
    InCall =>
        /\ acc.st.nonrCleared <=> \E j \in 1..Len(acc.rows) : acc.rows[j].nonrEnd = Zero
        /\ \A k \in 1..Len(acc.rows) :
               ClosedBefore(acc.rows, k) => acc.rows[k].tfsaC = Zero

\* a taxable account closed at zero in the first year and reopened by a surplus in
\* the second, with a third year after it and a tax-free contribution configured
C21_Witness ==
    /\ InCall /\ Len(acc.rows) = 3
    /\ c.tfsaContribute.n > 0
    /\ acc.rows[1].nonrEnd = Zero
    /\ acc.rows[2].nonrC.n > 0 /\ acc.rows[2].nonrEnd.n > 0
    /\ acc.rows[3].nonrEnd.n > 0

\* the spending bases at or below e that feasibility is compared at: the levels
\* of the calls and the five whole amounts under e
MaxBelow == 5
BasesBelow(e) ==
    {x \in Nums(ExpenseLevels) \cup {Sub(e, Num(k)) : k \in 1..MaxBelow} : x.n >= 0 /\ Leq(x, e)}

\* C24: feasibility is monotone in the spending base: for fixed inputs, horizon
\* and fixed withdrawal, if runProjection at expenseBase e reports no depletion
\* then runProjection at every e' with 0 <= e' <= e reports no depletion either.
C24_FeasibilityMonotone ==
    (ppc = "returned" /\ ~result.depletedEarly) =>
        \A x \in BasesBelow(call.expensesBase) :
            ~runProjection(c, x, call.yearsToPlanLocal, call.rrspWithdrawFixedUsed).depletedEarly

\* the constants of the call are not negative
NonNegativeEnv ==
    /\ c.yearsToRetire >= 0
    /\ c.incomeAnnual.n >= 0 /\ c.inflationRate.n >= 0
    /\ c.rrspInitialBalance.n >= 0 /\ c.rrspContribute.n >= 0 /\ c.rrspRoi.n >= 0
    /\ c.tfsaInitialBalance.n >= 0 /\ c.tfsaContribute.n >= 0 /\ c.tfsaRoi.n >= 0
    /\ c.nonRegisteredInitialBalance.n >= 0 /\ c.nonRegisteredRoi.n >= 0

\* what comes in during the year of row r and what goes out, as exact sums of the
\* amounts recorded in the row
Inflow(r) == Sum(Sum(Sum(r.income, r.rrspW), r.nonrW), r.tfsaW)
Outflow(r) == Sum(Sum(Sum(r.expense, r.rrspC), r.tfsaC), r.nonrC)
Imbalance(r) == Abs(Sum(Inflow(r), Neg(Outflow(r))))

\* the largest of the two sides, and 2^-48 of it: what the roundings of a year's
\* double additions and subtractions can add up to
Ulps == [n |-> 1, d |-> 1, e |-> 48, m |-> <<>>]
RoundingOf(r) == Product(Max(Abs(Inflow(r)), Abs(Outflow(r))), Ulps)

\* row k of the rows pushed so far is the row of a year that did not set the flag
Unflagged(k) == k < Len(acc.rows) \/ ~acc.st.depletedEarly

\* C25 as stated: for non-negative inputs, in every simulated year that does not
\* set the depletion flag, income + tax-deferred withdrawal + taxable withdrawal +
\* tax-free withdrawal = expense + tax-deferred contribution + tax-free
\* contribution + taxable contribution, within epsilon.
C25_CashFlowConserved ==
    (InCall /\ NonNegativeEnv /\ call.expensesBase.n >= 0) =>
        \A k \in 1..Len(acc.rows) :
            Unflagged(k) => Leq(Imbalance(acc.rows[k]), EPS)

\* C25 amended: the same, within epsilon plus the rounding error of the year's
\* double arithmetic (at most 2^-48 of the year's total flow).
C25_CashFlowConservedUpToRounding ==
    (InCall /\ NonNegativeEnv /\ call.expensesBase.n >= 0) =>
        \A k \in 1..Len(acc.rows) :
            Unflagged(k) =>
                Leq(Imbalance(acc.rows[k]), Sum(EPS, RoundingOf(acc.rows[k])))

\* a retirement year paid by the fixed withdrawal and the whole taxable account,
\* with a part of the tax-free target still contributed, after a working year
\* that had to withdraw
C25_Witness ==
    /\ InCall /\ NonNegativeEnv /\ RetirementRow /\ Len(acc.rows) >= 2
    /\ ~acc.st.depletedEarly
    /\ acc.rows[1].nonrW.n > 0
    /\ LastRow.nonrW.n > 0 /\ LastRow.nonrW = LastRow.nonrInit
    /\ LastRow.tfsaC.n > 0 /\ Less(LastRow.tfsaC, LastTarget)

\* the tax-free contribution target of the year of row k, by the rows before it,
\* and the target the loop carries into the year after the last row
TargetOf(k) == IF ClosedBefore(acc.rows, k) THEN Zero ELSE c.tfsaContribute
CarriedTarget == IF acc.st.nonrCleared THEN Zero ELSE c.tfsaContribute

\* C27 as stated: the tax-free contribution target equals the configured annual
\* contribution in every year, pre-retirement and retirement alike, until a year
\* in which the taxable closing balance is zero; in all years after such a year
\* the target is zero (the closed flag never resets), and in every year the actual
\* tax-free contribution is between 0 and the target.
C27_TargetRule ==
    InCall =>
        /\ CarriedTarget = TargetOf(Len(acc.rows) + 1)
        /\ \A k \in 1..Len(acc.rows) :
               /\ Leq(Zero, acc.rows[k].tfsaC)
               /\ Leq(acc.rows[k].tfsaC, TargetOf(k))

\* C27 amended: the same, the bounds on the actual contribution for a configured
\* contribution that is not negative.
C27_TargetRuleNonNegative ==
    InCall =>
        /\ CarriedTarget = TargetOf(Len(acc.rows) + 1)
        /\ \A k \in 1..Len(acc.rows) :
               (c.tfsaContribute.n >= 0) =>
                   /\ Leq(Zero, acc.rows[k].tfsaC)
                   /\ Leq(acc.rows[k].tfsaC, TargetOf(k))

\* a projection that contributed the configured amount in its first year, closed
\* the taxable account in a later one and contributes nothing since
C27_Witness ==
    /\ InCall /\ Len(acc.rows) >= 3
    /\ c.tfsaContribute.n > 0
    /\ acc.rows[1].tfsaC = c.tfsaContribute
    /\ ~ClosedBefore(acc.rows, 2) /\ ClosedBefore(acc.rows, Len(acc.rows))
    /\ LastRow.tfsaC = Zero
    /\ acc.st.nonrCleared

\* the balance simulate(W) of the withdrawal solver holds after k years, for the
\* tax-deferred constants and the fixed withdrawal of the call
SolverBalance(k) ==
    simulate(call.rrspWithdrawFixedUsed, c.yearsToRetire, k,
             c.rrspInitialBalance, c.rrspContribute, c.rrspRoi)

\* C28: the withdrawal solver's internal simulation and the year-state simulator
\* agree on the tax-deferred account: for all inputs, horizon N and W, the
\* tax-deferred closing balance of row t in runProjection equals the balance the
\* solver's simulate(W) holds after year t, and the tax-deferred column does not
\* depend on expenseBase, income, inflation or the other two accounts.
C28_SolverAgreesWithProjection ==
    InCall =>
        \A k \in 1..Len(acc.rows) :
            /\ acc.rows[k].rrspEnd = SolverBalance(k)
            /\ acc.rows[k].rrspInit =
                   (IF k = 1 THEN c.rrspInitialBalance
                    ELSE Mul(SolverBalance(k - 1), Add(One, c.rrspRoi)))
            /\ acc.rows[k].rrspC = (IF k - 1 < c.yearsToRetire THEN c.rrspContribute ELSE Zero)
            /\ acc.rows[k].rrspW =
                   (IF k - 1 >= c.yearsToRetire THEN call.rrspWithdrawFixedUsed ELSE Zero)

\* a projection through a working year and two retirement years, with a return
\* on the tax-deferred account, that overdraws it, and with spending and income
C28_Witness ==
    /\ InCall /\ Len(acc.rows) >= 3
    /\ c.yearsToRetire = 1
    /\ c.rrspRoi # Zero /\ call.rrspWithdrawFixedUsed.n > 0
    /\ call.expensesBase.n > 0 /\ c.incomeAnnual.n > 0 /\ c.inflationRate # Zero
    /\ LastRow.rrspEnd.n < 0
    /\ LastRow.rrspEnd = SolverBalance(Len(acc.rows))

----------------------------------------------------------------------------
(* Properties of the request handler (Spec)                                    *)

Done == pc = "done"

\* C7: no request ends in the thrown-error path: every solver mode returns the
\* report (status 200).
C7_NoThrow == pc # "catch" /\ (Done => response = 200)

\* the horizon and base expense each mode hands to the final run
FinalHorizon == IF mode = "findMaxYears" THEN yearsToPlanFinal ELSE MaxInt(1, inputs.yearsToPlan)
FinalExpense == IF mode = "solveExpenses" THEN solvedInitialExpense ELSE c.expensesAnnual

\* C6: in every mode the final rows come from one runProjection call with the
\* mode's arguments: the user's or the resolved expense, the user's or the resolved
\* horizon, and the withdrawal solved for that horizon.
C6_FinalRunArguments ==
    Done => /\ response = 200
            /\ finalProjection = runProjection(c, FinalExpense, FinalHorizon,
                                               solveRrspWForHorizon(c, FinalHorizon))

Depleted(E) ==
    runProjection(c, E, MaxInt(1, inputs.yearsToPlan), rrspWForSolve).depletedEarly

\* C4: in solveExpenses mode the resolved expense E is feasible (the projection at
\* E is not depleted) and E + 1 is not.
C4_SolvedExpenseIsMaximal ==
    (Done /\ mode = "solveExpenses") =>
        /\ solvedInitialExpense # Null
        /\ ~Depleted(solvedInitialExpense)
        /\ Depleted(Add(solvedInitialExpense, One))

\* the handler is at the head of the bisection loop, before its pass number i + 1
AtBisect == mode = "solveExpenses" /\ pc = "bisect"

C8_FinalRunNotDepleted ==
    (Done /\ mode = "findMaxYears") => ~finalProjection.depletedEarly

\* C9: in findMaxYears mode the resolved horizon is maximal: no horizon N' with
\* N < N' <= 120 is self-consistent.
C9_ResolvedHorizonMaximal ==
    (Done /\ mode = "findMaxYears") =>
        \A n \in (yearsToPlanFinal + 1)..MAX_YEARS_CAP :
            simulateGivenN(c, n, c.expensesAnnual) # n

\* a request whose counts, balances, contributions, income, expense and rates are
\* not negative
NonNegativeInputs ==
    /\ inputs.yearsToRetire >= 0 /\ inputs.yearsToPlan >= 0
    /\ inputs.incomeAnnual.n >= 0 /\ inputs.expensesAnnual.n >= 0 /\ inputs.inflationRate.n >= 0
    /\ inputs.rrspInitialBalance.n >= 0 /\ inputs.rrspContribute.n >= 0 /\ inputs.rrspRoi.n >= 0
    /\ inputs.tfsaInitialBalance.n >= 0 /\ inputs.tfsaContribute.n >= 0 /\ inputs.tfsaRoi.n >= 0
    /\ inputs.nonRegisteredInitialBalance.n >= 0 /\ inputs.nonRegisteredRoi.n >= 0

NonNegativeBalances(r) ==
    /\ r.rrspInit.n >= 0 /\ r.rrspEnd.n >= 0
    /\ r.tfsaInit.n >= 0 /\ r.tfsaEnd.n >= 0
    /\ r.nonrInit.n >= 0 /\ r.nonrEnd.n >= 0

\* C13: for non-negative inputs, every opening and closing balance of every
\* account in every row handed to the renderer is non-negative, in every mode.
C13_RenderedBalancesNonNegative ==
    (pc \in {"render", "done"} /\ response # 500 /\ NonNegativeInputs) =>
        \A k \in 1..Len(finalProjection.rows) : NonNegativeBalances(finalProjection.rows[k])

\* a balance that is exactly 0 or at least EPS
Floored(x) == x = Zero \/ ~LtEps(x)

\* C22: in every row the tax-deferred, tax-free and taxable closing balances are
\* each either exactly 0 or at least the epsilon 1e-9: no closing balance below
\* epsilon is recorded or carried into the next year.
C22_ClosingBalancesFloored ==
    (pc \in {"render", "done"} /\ response # 500) =>
        \A k \in 1..Len(finalProjection.rows) :
            /\ Floored(finalProjection.rows[k].rrspEnd)
            /\ Floored(finalProjection.rows[k].tfsaEnd)
            /\ Floored(finalProjection.rows[k].nonrEnd)

\* the raw rate fields of the request and the rates the engine uses
RawRates == <<inputs.inflationRate, inputs.rrspRoi, inputs.tfsaRoi, inputs.nonRegisteredRoi>>
UsedRates == <<c.inflationRate, c.rrspRoi, c.tfsaRoi, c.nonRegisteredRoi>>

\* C14: after normalization every rate used by the engine (inflation and the three
\* rates of return) lies in [0, 1], whatever raw value was supplied, and a raw
\* value greater than 1 is divided by 100.
C14_RatesNormalized ==
    pc # "start" =>
        \A k \in 1..4 :
            /\ UsedRates[k].n >= 0 /\ Leq(UsedRates[k], One)
            /\ Less(One, RawRates[k]) => UsedRates[k] = Div(RawRates[k], Num(100))

\* C16: every invocation terminates in every mode: the bracket expansion ends
\* after finitely many doublings (hi stays below twice the cap), the bisection
\* runs exactly 50 simulations, and the fixed-point search at most 25 before a
\* result is reported.  i counts the simulations of the bisection; iter counts
\* the simulations of the fixed-point search that were followed by another pass,
\* so each of its simulations starts with fewer than 25 behind it.
C16_Terminates ==
    /\ [](pc = "fixedPoint" => iter < 25)
    /\ <>(/\ Done
          /\ i = (IF mode = "solveExpenses" THEN 50 ELSE 0)
          /\ iter <= 25
          /\ (mode = "solveExpenses" => Less(hi, Mul(Num(HiCap), Two))))

\* a bracket that was doubled up to the cap and then bisected 50 times
C16_Witness ==
    /\ Done /\ mode = "solveExpenses" /\ i = 50
    /\ Leq(Num(HiCap), hi) /\ Less(Num(MinHi), lo)

----------------------------------------------------------------------------
(* Properties of repeated calls (SpecCalls) *)

\* C17: runProjection is deterministic and keeps no state between calls: a call
\* that returns has the rows, the depletion flag and the ending total of every
\* earlier call with the same (inputs, expensesBase, horizon, fixed withdrawal),
\* whatever calls ran before or between them.
C17_SameCallSameResult ==
    ppc = "returned" =>
        \A k \in 1..Len(earlier) :
            earlier[k].call = call =>
                /\ earlier[k].result.rows = result.rows
                /\ earlier[k].result.depletedEarly = result.depletedEarly
                /\ earlier[k].result.endingTotal = result.endingTotal

\* a call repeated after a different one ran in between, two years long
C17_Witness ==
    /\ ppc = "returned"
    /\ Len(earlier) = 2
    /\ earlier[1].call = call
    /\ earlier[2].call # call
    /\ earlier[2].result # result
    /\ Len(result.rows) = 2

----------------------------------------------------------------------------
(* Properties of the normalizers (SpecNormalize) *)

Absent == field.kind = "undefined" \/ field.kind = "null"
Empty == field.kind = "string" /\ Len(trim(field.text)) = 0

\* the field is a text that is not a number: Number(text) is NaN
NotANumber == field.kind = "string" /\ Number(field.text) = NaN

\* C15 as stated: toNum and toInt always return a finite number, and return 0
\* when the field is absent, null, empty, or cannot be parsed as a number.
C15_ZeroWhenNotANumber ==
    /\ asNum # NaN /\ asInt # NaN
    /\ (Absent \/ Empty \/ NotANumber) =>
           /\ asNum # Null => asNum = Zero
           /\ asInt # Null => asInt = Zero

\* s is an optional "-", then digits, or digits "." digits with a digit on at
\* least one side of the point
Numeral(s) ==
    \E a \in 0..1, p \in 0..Len(s) :
        /\ a <= p /\ (a = 1 => s[1] = "-")
        /\ \A k \in (a + 1)..p : IsDigit(s[k])
        /\ \/ p = Len(s) /\ p > a
           \/ /\ p < Len(s) /\ s[p + 1] = "."
              /\ \A k \in (p + 2)..Len(s) : IsDigit(s[k])
              /\ Len(s) - 1 > a

\* s starts, after spaces, with an optional "-" and a digit
LeadingInteger(s) ==
    \E k \in 1..Len(s) :
        /\ IsDigit(s[k])
        /\ \/ \A j \in 1..(k - 1) : s[j] = " "
           \/ k > 1 /\ s[k - 1] = "-" /\ \A j \in 1..(k - 2) : s[j] = " "

\* C15 amended: toNum and toInt always return a finite number; toNum returns 0
\* when the field is absent, null, empty, or when its characters other than
\* digits, "." and "-" being removed what is left is not a decimal numeral;
\* toInt returns 0 when the field is absent, null, or does not start, after
\* spaces, with an optionally signed digit.
C15_ZeroWhenNothingNumeric ==
    /\ asNum # NaN /\ asInt # NaN
    /\ asNum # Null =>
           ((Absent \/ Empty \/ ~Numeral(cleaned(trim(field.text)))) => asNum = Zero)
    /\ asInt # Null =>
           ((Absent \/ ~LeadingInteger(field.text)) => asInt = Zero)

\* a text with a letter and a sign in it that both functions turned into 0
C15_Witness ==
    /\ field.kind = "string" /\ asNum = Zero /\ asInt = Zero
    /\ \E j, k \in 1..Len(field.text) : field.text[j] = "a" /\ field.text[k] = "-"

\* the fixed-point loop of findMaxYears is running, and has run
InFixedPoint == mode = "findMaxYears" /\ pc = "fixedPoint"
HorizonResolved == mode = "findMaxYears" /\ pc \notin {"start", "fixedPoint", "afterFixedPoint"}

\* C26: in find-maximum-horizon mode the candidate horizon starts at the cap 120,
\* never increases from one iteration to the next and never reaches zero, so the
\* resolved horizon is always in 1..120, the stop-at-zero branch is never taken,
\* and the resolved horizon is strictly less than 120 whenever the first pass at
\* the cap stops early.
C26_CandidateHorizon ==
    /\ [][(mode = "findMaxYears" /\ pc = "start") => N' = 120]_vars
    /\ [][InFixedPoint => (N' <= N /\ N' >= 1 /\ yearsToPlanFinal' # 0)]_vars
    /\ [](InFixedPoint => N \in 1..120)
    /\ [](HorizonResolved =>
             /\ yearsToPlanFinal \in 1..120
             /\ (simulateGivenN(c, 120, c.expensesAnnual) < 120 => yearsToPlanFinal < 120))

\* a request whose candidate came down from the cap in several passes
C26_Witness ==
    /\ HorizonResolved /\ Done
    /\ iter >= 2
    /\ N < 120 /\ yearsToPlanFinal > 1 /\ yearsToPlanFinal < 120

====
